---------------------------- MODULE Spec2Model ----------------------------
(***************************************************************************)
(* A model of RCAttr, the per-column attribute controller of               *)
(* storage/stonedb/core/rc_attr.cpp: the pack lock protocol on the DPN's   *)
(* tagged word, copy-on-write of packs and of the dictionary, append and   *)
(* point update, and SaveVersion / PostCommit / Rollback / Truncate.       *)
(*                                                                         *)
(* The DPN, the Pack, the FTree dictionary, the ColumnShare and the cache  *)
(* are declared in headers that rc_attr.cpp includes; they are modelled    *)
(* from their description and from the way rc_attr.cpp uses them.          *)
(***************************************************************************)
EXTENDS Integers, Sequences, FiniteSets, TLC

(***************************************************************************)
(* Bounds of the model.                                                    *)
(***************************************************************************)
\* number of concurrent reader threads
NReaders == 2
\* slots of the share's DPN arena
NDpn == 4
\* transactions the transaction manager starts
MaxXid == 2
\* dictionary versions
MaxDictVer == 3
\* rows of the column
MaxRows == 3
\* values of a LoadData batch
MaxBatch == 3
\* calls of LoadData and UpdateData
MaxOps == 2
\* calls of Truncate
MaxTruncate == 1
\* integer values 0 .. MaxVal, and strings 1 .. NStr of a lookup column
MaxVal == 1
NStr == 2

(***************************************************************************)
(* Program constants.                                                      *)
(***************************************************************************)
\* pack size shift of the column share: a pack holds 1 << pss rows
pss == 1
\* DPN::addr of a pack with no body on disk
DPN_INVALID_ADDR == 0
\* DPN::base of a DPN that shadows no committed DPN
INVALID_PACK_INDEX == -1
\* the null code of an integer pack
NULL_VALUE_64 == -9
\* one reference in the tagged word
tag_one == 1
\* number of values of the reference count kept in the low bits of the word
TagRange == 8

PackSize == 2 ^ pss
DpnIdx == 0 .. (NDpn - 1)
\* the writer's thread and the readers' threads
W == 0
Readers == 1 .. NReaders
Threads == {W} \cup Readers

\* the word value that says a loader is in flight: no aligned pointer, not zero
loading_flag == (NDpn + 2) * TagRange - 1
\* the address of the Pack object cached under coordinate c, reference bits clear
PtrOf(c) == (c + 1) * TagRange
\* v & ~tag_mask: the reference count of a pointer word
RefCount(v) == v % TagRange
\* v & tag_mask: the pointer of a pointer word
tag_mask(v) == v - (v % TagRange)
\* the coordinate of the Pack a pointer word refers to
PackOfWord(v) == (v \div TagRange) - 1
IsPtrWord(v) == v # 0 /\ v # loading_flag

VARIABLES
    dpn,        \* ColumnShare: the DPN arena, [DpnIdx -> DPN]
    cache,      \* rceng->cache, packs: [DpnIdx -> Pack or NoPack]
    disk,       \* the column's data file: [address -> pack body]
    hdr,        \* the writer's controller: COL_VER_HDR
    m_idx,      \*   its pack index, a sequence of DPN indices
    m_tx,       \*   its transaction (its xid), 0 for nullptr
    m_version,  \*   the version it loaded
    no_change,  \*   nothing to save yet
    m_dict,     \*   its dictionary handle: the version the FTree is cached under, 0 for none
    dcache,     \* rceng->cache, dictionaries: [version -> FTree or NoDict]
    dfile,      \* DICT/<n>: [version -> the saved entries, or NoFile]
    vfile,      \* VERSION/<xid>: [xid -> hdr and index, or NoVersion]
    col,        \* the column's type: [lookup, notnull]
    committed,  \* the table's current version, which a new controller loads
    nextXid,    \* the transaction manager's next transaction id
    removed,    \* rceng->DeferRemove: the files scheduled for removal
    img,        \* history: the rows the writer's calls have put in the column
    gimg,       \* history: the rows of each committed version
    wr,         \* the writer's call in progress: UpdateData's arguments
    rd,         \* the readers' controllers: [Readers -> [m_idx, ver]]
    th,         \* each thread's position and locals
    gh          \* history: counts of loads, calls and failures

shareVars == <<dpn, cache, disk>>
ctlVars == <<hdr, m_idx, m_tx, m_version, no_change, m_dict, dcache, dfile, vfile,
             col, committed, nextXid, removed, img, gimg, wr>>
vars == <<dpn, cache, disk, hdr, m_idx, m_tx, m_version, no_change, m_dict, dcache,
          dfile, vfile, col, committed, nextXid, removed, img, gimg, wr, rd, th, gh>>

NoPack == [in |-> FALSE, lock |-> 0, vals |-> <<>>]
NoDict == [in |-> FALSE, entries |-> <<>>, changed |-> FALSE]
NoFile == <<"none">>
NoVersion == [in |-> FALSE]

\* DPN::reset(): the all-zero record
DpnReset ==
    [used |-> FALSE, local |-> FALSE, synced |-> FALSE, base |-> 0,
     nr |-> 0, nn |-> 0, min_i |-> 0, max_i |-> 0, sum_i |-> 0,
     addr |-> 0, xmin |-> 0, xmax |-> 0, ptr |-> 0]

\* DPN::Trivial(): no pack body on disk
Trivial(d) == d.addr = DPN_INVALID_ADDR
\* DPN::NullOnly()
NullOnly(d) == d.nr = d.nn
\* DPN::IsLocal()
IsLocal(d) == d.local

\* the m_idx of the controller thread t works with
MIdx(t) == IF t = W THEN m_idx ELSE rd[t].m_idx
\* get_pc(pn): the cache coordinate of the DPN that m_idx[pn] names
get_pc(t, pn) == MIdx(t)[pn + 1]
\* get_dpn(pn), followed through base when it is local (LockPackForUse,
\* UnlockPackFromUse); INVALID_PACK_INDEX when a local DPN has no base
DpnNotThroughBase(t, pn) == MIdx(t)[pn + 1]
DpnThroughBase(t, pn) ==
    LET i == MIdx(t)[pn + 1]
    IN  IF IsLocal(dpn[i]) THEN dpn[i].base ELSE i

Seq2(n, x) == [k \in 1 .. n |-> x]

\* the Pack constructor: the body is read from the data file at dpn.addr when
\* the DPN is not trivial, and is described by the DPN's statistics otherwise
PackBody(dp, dk, c) ==
    IF ~Trivial(dp[c]) THEN dk[dp[c].addr]
    ELSE IF NullOnly(dp[c]) THEN Seq2(dp[c].nr, NULL_VALUE_64)
    ELSE Seq2(dp[c].nr, dp[c].min_i)

\* RCAttr::Fetch(PackCoordinate): a new Pack on the DPN of the coordinate
Fetch(dp, dk, c) == [in |-> TRUE, lock |-> 1, vals |-> PackBody(dp, dk, c)]

\* cache.GetOrFetchObject<Pack>(c): the cached object, locked once more, or
\* the object Fetch makes
GetOrFetchObject(dp, dk, ch, c) ==
    IF ch[c].in THEN [ch EXCEPT ![c].lock = @ + 1]
    ELSE [ch EXCEPT ![c] = Fetch(dp, dk, c)]

Sat(n) == IF n >= 2 THEN 2 ELSE n + 1

\* the history of the lock protocol is kept where gh.hist says so
Hist(g) == IF gh.hist THEN g ELSE gh

\* a thread outside of LockPackForUse and UnlockPackFromUse
NoSeen == [has |-> FALSE, row |-> 0, val |-> 0]
ThInit ==
    [pc |-> "idle", pn |-> 0, d |-> 0, v |-> 0, sp |-> 0, res |-> "none", seen |-> NoSeen]

(***************************************************************************)
(* RCAttr::LockPackForUse, one action per atomic step.                     *)
(***************************************************************************)
\* DPN::IncRef takes a reference only on a pointer word
IncRefTakes(v) == v # 0 /\ v # loading_flag

\* uint64_t v = 0; dpn->CAS(v, loading_flag) succeeds on the word w
LoadCasStale(w) == w = 0 \/ w = loading_flag
LoadCasSucceeds(w) == w = 0

\* where the loop goes after the sleep: back to IncRef
RetrySkipsIncRef == "cas"
RetryTarget == "incref_load"

\* entry: resolve the DPN, return at once on a trivial committed DPN
LockEnterCore(t, pn) ==
    LET d == DpnThroughBase(t, pn)
    IN  /\ th[t].pc = "idle"
        /\ pn \in 0 .. (Len(MIdx(t)) - 1)
        /\ gh' = [Hist([gh EXCEPT !.calls[t] = Sat(@), !.waited[t] = FALSE])
                      EXCEPT !.ops = IF t = W THEN @ + 1 ELSE @]
        /\ IF d = INVALID_PACK_INDEX
           THEN th' = [th EXCEPT ![t].pc = "fault", ![t].pn = pn]
           ELSE IF Trivial(dpn[d]) /\ ~IsLocal(dpn[d])
           THEN th' = [th EXCEPT ![t].pc = "locked", ![t].pn = pn, ![t].d = d,
                                 ![t].res = "ok"]
           ELSE th' = [th EXCEPT ![t].pc = "incref_load", ![t].pn = pn,
                                 ![t].d = d, ![t].res = "none"]

LockEnter(t, pn) == LockEnterCore(t, pn) /\ UNCHANGED <<shareVars, ctlVars, rd>>

\* the call returns: its locals are gone
Return(t, res) == [th EXCEPT ![t] = [ThInit EXCEPT !.res = res]]

\* IncRef: auto v = tagged_ptr.load()
IncRefLoad(t) ==
    /\ th[t].pc = "incref_load"
    /\ th' = [th EXCEPT ![t].pc = "incref_cas", ![t].v = dpn[th[t].d].ptr]
    /\ UNCHANGED <<shareVars, ctlVars, rd, gh>>

\* IncRef: while (v is a pointer) if (compare_exchange(v, v + tag_one)) return
IncRefCas(t) ==
    LET d == th[t].d
        v == th[t].v
    IN  /\ th[t].pc = "incref_cas"
        /\ IF ~IncRefTakes(v)
           THEN /\ th' = [th EXCEPT ![t].pc = "cas"]
                /\ UNCHANGED dpn
           ELSE IF dpn[d].ptr = v
           THEN /\ dpn' = [dpn EXCEPT ![d].ptr = v + tag_one]
                /\ th' = [th EXCEPT ![t].pc = "locked", ![t].res = "ok"]
           ELSE /\ th' = [th EXCEPT ![t].v = dpn[d].ptr]
                /\ UNCHANGED dpn
        /\ UNCHANGED <<cache, disk, ctlVars, rd, gh>>

\* the CAS 0 -> loading_flag: the winner loads, the others sleep
LoadCas(t) ==
    LET d == th[t].d
    IN  /\ th[t].pc = "cas"
        /\ IF LoadCasSucceeds(dpn[d].ptr)
           THEN /\ dpn' = [dpn EXCEPT ![d].ptr = loading_flag]
                /\ th' = [th EXCEPT ![t].pc = "fetch"]
                /\ gh' = Hist([gh EXCEPT !.nWin = Sat(@), !.loader[d] = t])
           ELSE /\ th' = [th EXCEPT ![t].pc = "sleep"]
                /\ gh' = Hist([gh EXCEPT !.waited[t] = TRUE])
                /\ UNCHANGED dpn
        /\ UNCHANGED <<cache, disk, ctlVars, rd>>

\* sp = rceng->cache.GetOrFetchObject<Pack>(get_pc(pn), this): a hit, or a
\* miss on which Fetch builds the pack or throws
FetchStep(t) ==
    LET c == get_pc(t, th[t].pn)
    IN  /\ th[t].pc = "fetch"
        /\ \/ /\ cache' = GetOrFetchObject(dpn, disk, cache, c)
              /\ th' = [th EXCEPT ![t].pc = "install", ![t].sp = c]
              /\ gh' = IF cache[c].in THEN gh ELSE Hist([gh EXCEPT !.nFetch = Sat(@)])
           \/ /\ ~cache[c].in
              /\ th' = [th EXCEPT ![t].pc = "catch"]
              /\ gh' = Hist([gh EXCEPT !.nFetch = Sat(@)])
              /\ UNCHANGED cache
        /\ UNCHANGED <<dpn, disk, ctlVars, rd>>

\* newv = reinterpret_cast<unsigned long>(sp.get()) + tag_one
InstallNoRef(sp) == PtrOf(sp)
InstallValue(sp) == PtrOf(sp) + tag_one

\* ASSERT(dpn->CAS(loading_flag, sp.get() + tag_one)); return
Install(t) ==
    LET d == th[t].d
    IN  /\ th[t].pc = "install"
        /\ IF dpn[d].ptr = loading_flag
           THEN /\ dpn' = [dpn EXCEPT ![d].ptr = InstallValue(th[t].sp)]
                /\ th' = [th EXCEPT ![t].pc = "locked", ![t].res = "ok"]
           ELSE /\ th' = [th EXCEPT ![t].pc = "fault"]
                /\ UNCHANGED dpn
        /\ UNCHANGED <<cache, disk, ctlVars, rd, gh>>

\* the word the catch blocks store before they rethrow
CatchKeepsFlag == loading_flag
CatchValue == 0

\* catch: dpn->SetPackPtr(0); throw
CatchReset(t) ==
    LET d == th[t].d
    IN  /\ th[t].pc = "catch"
        /\ dpn' = [dpn EXCEPT ![d].ptr = CatchValue]
        /\ th' = Return(t, "threw")
        /\ gh' = Hist([gh EXCEPT !.failed[t] = TRUE])
        /\ UNCHANGED <<cache, disk, ctlVars, rd>>

\* std::this_thread::sleep_for(5 ms), then the loop again
Sleep(t) ==
    /\ th[t].pc = "sleep"
    /\ th' = [th EXCEPT ![t].pc = RetryTarget]
    /\ UNCHANGED <<shareVars, ctlVars, rd, gh>>

(***************************************************************************)
(* RCAttr::UnlockPackFromUse.                                              *)
(***************************************************************************)
\* entry: resolve the DPN, return on a trivial one, v = dpn->GetPackPtr()
UnlockEnterCore(t) ==
    LET d == DpnThroughBase(t, th[t].pn)
    IN  /\ th[t].pc = "locked"
        /\ IF d = INVALID_PACK_INDEX
           THEN th' = [th EXCEPT ![t].pc = "fault"]
           ELSE IF Trivial(dpn[d])
           THEN th' = Return(t, "none")
           ELSE th' = [th EXCEPT ![t].pc = "unl_cas", ![t].d = d,
                                 ![t].v = dpn[d].ptr, ![t].res = "none"]

UnlockEnter(t) == UnlockEnterCore(t) /\ UNCHANGED <<shareVars, ctlVars, rd, gh>>

\* the word that replaces v: one reference less, 0 for the last one
UnlockKeepsPointer(v) == v - tag_one
UnlockNewValue(v) == IF RefCount(v) = tag_one THEN 0 ELSE v - tag_one

\* the loop if every release went on to Pack::Unlock, not the last one only
UnlockCasAlwaysUnlocks(t) ==
    LET d == th[t].d
        v == th[t].v
        newv == UnlockNewValue(v)
    IN  /\ th[t].pc = "unl_cas"
        /\ IF ~(v > tag_one)
           THEN /\ th' = [th EXCEPT ![t].pc = "fault"]
                /\ UNCHANGED dpn
           ELSE IF dpn[d].ptr = v
           THEN /\ dpn' = [dpn EXCEPT ![d].ptr = newv]
                /\ th' = [th EXCEPT ![t].pc = "unl_pack"]
           ELSE /\ th' = [th EXCEPT ![t].v = dpn[d].ptr]
                /\ UNCHANGED dpn
        /\ UNCHANGED <<cache, disk, ctlVars, rd, gh>>

\* do { ASSERT(v > tag_one); newv = ...; } while (!dpn->CAS(v, newv))
UnlockCas(t) ==
    LET d == th[t].d
        v == th[t].v
        newv == UnlockNewValue(v)
    IN  /\ th[t].pc = "unl_cas"
        /\ IF ~(v > tag_one)
           THEN /\ th' = [th EXCEPT ![t].pc = "fault"]
                /\ UNCHANGED dpn
           ELSE IF dpn[d].ptr = v
           THEN /\ dpn' = [dpn EXCEPT ![d].ptr = newv]
                /\ th' = IF newv = 0 THEN [th EXCEPT ![t].pc = "unl_pack"]
                         ELSE Return(t, "none")
           ELSE /\ th' = [th EXCEPT ![t].v = dpn[d].ptr]
                /\ UNCHANGED dpn
        /\ UNCHANGED <<cache, disk, ctlVars, rd, gh>>

\* if (newv == 0) reinterpret_cast<Pack *>(v & tag_mask)->Unlock()
PackUnlock(t) ==
    LET ap == PackOfWord(th[t].v)
    IN  /\ th[t].pc = "unl_pack"
        /\ IF ap \in DpnIdx /\ cache[ap].in /\ cache[ap].lock > 0
           THEN /\ cache' = [cache EXCEPT ![ap].lock = @ - 1]
                /\ th' = Return(t, "none")
           ELSE /\ th' = [th EXCEPT ![t].pc = "fault"]
                /\ UNCHANGED cache
        /\ UNCHANGED <<dpn, disk, ctlVars, rd, gh>>

\* the cache releases an object nobody has locked
Evict(c) ==
    /\ cache[c].in
    /\ cache[c].lock = 0
    /\ cache' = [cache EXCEPT ![c] = NoPack]
    /\ UNCHANGED <<dpn, disk, ctlVars, rd, th, gh>>

(***************************************************************************)
(* The writer's handlers.  A handler's calls are operators on the record   *)
(* Cur of the state they touch; ok turns FALSE when the handler            *)
(* dereferences a null pointer or fails an assertion.                      *)
(***************************************************************************)
\* common::PLUS_INF_64 and std::numeric_limits<int64_t>::max()
PLUS_INF_64 == 99
\* common::MINUS_INF_64 and std::numeric_limits<int64_t>::min()
MINUS_INF_64 == -99
\* common::MAX_XID, and what rceng->MaxXID() returns
MAX_XID == 9

Cur ==
    [dpn |-> dpn, cache |-> cache, disk |-> disk, hdr |-> hdr, m_idx |-> m_idx,
     m_dict |-> m_dict, dcache |-> dcache, dfile |-> dfile, ok |-> TRUE]

Crash(S) == [S EXCEPT !.ok = FALSE]

Min2(a, b) == IF a < b THEN a ELSE b
Max2(a, b) == IF a > b THEN a ELSE b

\* loader::ValueCache with nv: the batch, nv = 0 in the place of its nulls when
\* the column is NOT NULL
Eff(nvs, notnull) ==
    [k \in 1 .. Len(nvs) |-> IF nvs[k] = NULL_VALUE_64 /\ notnull THEN 0 ELSE nvs[k]]
NonNulls(s) == {k \in 1 .. Len(s) : s[k] # NULL_VALUE_64}
\* ValueCache::NumOfNulls
NumOfNulls(s) == Len(s) - Cardinality(NonNulls(s))
\* ValueCache::CalcIntStats: MinInt, MaxInt, SumInt over the non-null values
MinInt(s) ==
    IF NonNulls(s) = {} THEN PLUS_INF_64
    ELSE CHOOSE m \in {s[k] : k \in NonNulls(s)} : \A k \in NonNulls(s) : m <= s[k]
MaxInt(s) ==
    IF NonNulls(s) = {} THEN MINUS_INF_64
    ELSE CHOOSE m \in {s[k] : k \in NonNulls(s)} : \A k \in NonNulls(s) : m >= s[k]
SumInt(s) ==
    LET sum[k \in 0 .. Len(s)] ==
            IF k = 0 THEN 0
            ELSE sum[k - 1] + (IF s[k] = NULL_VALUE_64 THEN 0 ELSE s[k])
    IN  sum[Len(s)]

\* ColumnShare::alloc_dpn(xid, from): the first unused slot of the arena, a
\* local DPN that copies from and has it as its base
HasFree(dp) == \E i \in DpnIdx : ~dp[i].used
FreeSlot(dp) == CHOOSE i \in DpnIdx : ~dp[i].used /\ \A j \in DpnIdx : ~dp[j].used => i <= j
alloc_dpn(dp, xid, from) ==
    IF from = INVALID_PACK_INDEX
    THEN [DpnReset EXCEPT !.used = TRUE, !.local = TRUE, !.base = INVALID_PACK_INDEX,
                          !.xmin = xid, !.xmax = MAX_XID]
    ELSE [dp[from] EXCEPT !.local = TRUE, !.base = from, !.xmin = xid,
                          !.xmax = MAX_XID, !.ptr = 0]

\* get_pack(pi): the Pack the DPN's word points to, none when the pointer is null
HasPack(S, c) ==
    /\ tag_mask(S.dpn[c].ptr) # 0
    /\ S.dpn[c].ptr # loading_flag
    /\ S.cache[PackOfWord(S.dpn[c].ptr)].in

\* the pack's count of nulls and its statistics after a change of its body
Restat(d, vals) ==
    [d EXCEPT !.nr = Len(vals), !.nn = NumOfNulls(vals),
              !.min_i = IF NonNulls(vals) = {} THEN 0 ELSE MinInt(vals),
              !.max_i = IF NonNulls(vals) = {} THEN 0 ELSE MaxInt(vals),
              !.sum_i = SumInt(vals)]

\* PackInt::LoadValues(nvs, nv): append the batch to the body; the DPN counts
\* the rows and the nulls, widens min and max, and is no longer trivial
LoadValues(S, c, nvs, notnull) ==
    LET e == Eff(nvs, notnull)
        d == S.dpn[c]
        p == PackOfWord(d.ptr)
        first == d.nr = d.nn
    IN  IF ~HasPack(S, c) THEN Crash(S)
        ELSE [S EXCEPT
                !.cache[p].vals = @ \o e,
                !.dpn[c] = [d EXCEPT
                    !.nr = @ + Len(e),
                    !.nn = @ + NumOfNulls(e),
                    !.min_i = IF NonNulls(e) = {} THEN @
                              ELSE IF first THEN MinInt(e) ELSE Min2(@, MinInt(e)),
                    !.max_i = IF NonNulls(e) = {} THEN @
                              ELSE IF first THEN MaxInt(e) ELSE Max2(@, MaxInt(e)),
                    !.synced = FALSE,
                    !.addr = c + 1]]

\* Pack::UpdateValue(offset, v): replace one value of the body and refresh the
\* DPN's statistics; the DPN is no longer trivial
UpdateValue(S, c, off, v) ==
    LET d == S.dpn[c]
        p == PackOfWord(d.ptr)
    IN  IF ~HasPack(S, c) THEN Crash(S)
        ELSE IF off >= Len(S.cache[p].vals) THEN Crash(S)
        ELSE LET vals == [S.cache[p].vals EXCEPT ![off + 1] = v]
             IN  [S EXCEPT !.cache[p].vals = vals,
                           !.dpn[c] = [Restat(d, vals) EXCEPT !.addr = c + 1]]

\* Pack::Save(): write the body to the data file at the pack's own address
Save(S, c) ==
    LET p == PackOfWord(S.dpn[c].ptr)
    IN  IF ~HasPack(S, c) THEN Crash(S)
        ELSE [S EXCEPT !.disk[c + 1] = S.cache[p].vals,
                       !.dpn[c].addr = c + 1,
                       !.dpn[c].synced = TRUE]

\* m_tx->GetID(): the writer's id; through a null m_tx the read is undefined,
\* and the thread either faults (Segv) or goes on with whatever id it read
Segv == -2
GetIDs == IF m_tx # 0 THEN {m_tx} ELSE {Segv, 0, MAX_XID}

\* CopyPackForWrite(pi) if it did not return on a local DPN
CopyPackForWriteAgain(S, pi, xid) ==
    LET old == S.m_idx[pi + 1]
        pos == FreeSlot(S.dpn)
        dp1 == [S.dpn EXCEPT ![pos] = alloc_dpn(S.dpn, xid, old)]
        ch1 == IF S.cache[old].in
               THEN [S.cache EXCEPT ![pos] = [in |-> TRUE, lock |-> 1,
                                              vals |-> S.cache[old].vals]]
               ELSE GetOrFetchObject(dp1, S.disk, S.cache, pos)
    IN  IF xid = Segv \/ ~HasFree(S.dpn) THEN Crash(S)
        ELSE [S EXCEPT !.dpn = [dp1 EXCEPT ![pos].ptr = PtrOf(pos) + tag_one],
                       !.cache = ch1,
                       !.m_idx = [S.m_idx EXCEPT ![pi + 1] = pos]]

\* RCAttr::CopyPackForWrite(pi)
CopyPackForWrite(S, pi, xid) ==
    LET old == S.m_idx[pi + 1]
        pos == FreeSlot(S.dpn)
        dp1 == [S.dpn EXCEPT ![pos] = alloc_dpn(S.dpn, xid, old)]
        ch1 == IF S.cache[old].in
               THEN [S.cache EXCEPT ![pos] = [in |-> TRUE, lock |-> 1,
                                              vals |-> S.cache[old].vals]]
               ELSE GetOrFetchObject(dp1, S.disk, S.cache, pos)
    IN  IF IsLocal(S.dpn[old]) THEN S
        ELSE IF xid = Segv THEN Crash(S)
        ELSE [S EXCEPT !.dpn = [dp1 EXCEPT ![pos].ptr = PtrOf(pos) + tag_one],
                       !.cache = ch1,
                       !.m_idx = [S.m_idx EXCEPT ![pi + 1] = pos]]

\* RCAttr::PreparePackForLoad()
PreparePackForLoad(S, xid) ==
    IF Len(S.m_idx) = 0 \/ S.dpn[S.m_idx[Len(S.m_idx)]].nr = PackSize
    THEN LET ret == FreeSlot(S.dpn)
         IN  IF xid = Segv THEN Crash(S)
             ELSE [S EXCEPT !.dpn[ret] = alloc_dpn(S.dpn, xid, INVALID_PACK_INDEX),
                            !.m_idx = Append(S.m_idx, ret)]
    ELSE CopyPackForWrite(S, Len(S.m_idx) - 1, xid)

\* RCAttr::LoadDataPackN(pi, nvs) on a column that is not of a string type
LoadDataPackN(S, pi, nvs, notnull) ==
    LET c == S.m_idx[pi + 1]
        d == S.dpn[c]
        e == Eff(nvs, notnull)
        load_values == Len(nvs)
        load_nulls == IF notnull THEN 0 ELSE NumOfNulls(nvs)
        load_min == MinInt(e)
        load_max == MaxInt(e)
        d1 == [d EXCEPT !.sum_i = @ + SumInt(e)]
        grown == IF S.cache[c].in THEN [S.cache EXCEPT ![c].vals = @ \o e] ELSE S.cache
        fetched == IF Trivial(d)
                   THEN [S EXCEPT
                           !.cache = GetOrFetchObject(S.dpn, S.disk, S.cache, c),
                           !.dpn[c] = [d1 EXCEPT !.ptr = PtrOf(c) + tag_one]]
                   ELSE [S EXCEPT !.dpn[c] = d1]
        loaded == IF (d.nn + load_nulls) = 0 /\ load_min = load_max
                     /\ (d.nr = 0 \/ (d.min_i = load_min /\ d.max_i = load_max))
                  THEN [S EXCEPT !.dpn[c] = [d1 EXCEPT !.min_i = load_min,
                                                       !.max_i = load_max,
                                                       !.nr = @ + load_values],
                                 !.cache = grown]
                  ELSE CHOOSE R \in {LoadValues(S2, c, nvs, notnull) : S2 \in {fetched}} :
                          TRUE
        Stat(S1) ==
            IF NumOfNulls(nvs) = Len(nvs) THEN S1
            ELSE IF S.hdr.nr = 0
            THEN [S1 EXCEPT !.hdr.min = S1.dpn[c].min_i, !.hdr.max = S1.dpn[c].max_i]
            ELSE [S1 EXCEPT !.hdr.min = Min2(@, S1.dpn[c].min_i),
                            !.hdr.max = Max2(@, S1.dpn[c].max_i)]
    IN  IF load_nulls = load_values /\ (d.nr = 0 \/ NullOnly(d))
        THEN [S EXCEPT !.dpn[c].nr = @ + load_values, !.dpn[c].nn = @ + load_values,
                       !.cache = grown]
        ELSE CHOOSE R \in {Stat(S1) : S1 \in {loaded}} : TRUE

\* FTree::GetEncodedValue: the code of a string, -1 when it has none
GetEncodedValue(entries, s) ==
    IF \E k \in 1 .. Len(entries) : entries[k] = s
    THEN (CHOOSE k \in 1 .. Len(entries) : entries[k] = s) - 1
    ELSE -1

\* RCAttr::Fetch(FTreeCoordinate): the dictionary read from DICT/<k>
FetchDict(S, k) ==
    IF S.dcache[k].in THEN [S EXCEPT !.m_dict = k]
    ELSE [S EXCEPT !.m_dict = k,
                   !.dcache[k] = [in |-> TRUE, entries |-> S.dfile[k], changed |-> FALSE]]

\* RCAttr::LoadPackInfo()
LoadPackInfo(S) ==
    IF S.hdr.dict_ver # 0 /\ S.m_dict = 0 THEN FetchDict(S, S.hdr.dict_ver) ELSE S

\* the block if it cloned the dictionary for every new value
DictAddAlwaysClones(S, s) ==
    LET ver == S.hdr.dict_ver + 1
        S1 == [S EXCEPT !.hdr.dict_ver = ver,
                        !.dcache[ver] = [in |-> TRUE,
                                         entries |-> S.dcache[S.m_dict].entries,
                                         changed |-> FALSE],
                        !.m_dict = ver]
    IN  IF S.m_dict = 0 THEN Crash(S)
        ELSE IF GetEncodedValue(S.dcache[S.m_dict].entries, s) >= 0 THEN S
        ELSE [S1 EXCEPT !.dcache[S1.m_dict].entries = Append(@, s),
                        !.dcache[S1.m_dict].changed = TRUE]

\* the copy-on-write block of EncodeValue_T and UpdateData, and FTree::Add:
\* the first new value of the transaction clones the dictionary, moves to the
\* next version and puts the clone in the cache under it
DictAdd(S, s) ==
    LET ver == S.hdr.dict_ver + 1
        S1 == IF ~S.dcache[S.m_dict].changed
              THEN [S EXCEPT !.hdr.dict_ver = ver,
                             !.dcache[ver] = [in |-> TRUE,
                                              entries |-> S.dcache[S.m_dict].entries,
                                              changed |-> FALSE],
                             !.m_dict = ver]
              ELSE S
    IN  IF S.m_dict = 0 THEN Crash(S)
        ELSE IF GetEncodedValue(S.dcache[S.m_dict].entries, s) >= 0 THEN S
        ELSE [S1 EXCEPT !.dcache[S1.m_dict].entries = Append(@, s),
                        !.dcache[S1.m_dict].changed = TRUE]

\* the state a handler leaves behind; a crash stops the writer
Apply(S) ==
    /\ dpn' = S.dpn
    /\ cache' = S.cache
    /\ disk' = S.disk
    /\ hdr' = S.hdr
    /\ m_idx' = S.m_idx
    /\ m_dict' = S.m_dict
    /\ dcache' = S.dcache
    /\ dfile' = S.dfile

Outcome(S) == IF S.ok THEN th ELSE [th EXCEPT ![W].pc = "fault"]

\* the writer's thread is between two calls, and SaveVersion has not returned
WriterFree == th[W].pc = "idle" /\ ~wr.prepared
\* the controller has a transaction handle
InTx == m_tx # 0
\* the writer's calls of LoadData and UpdateData are counted up to MaxOps
Budget == gh.ops < MaxOps
Spend(g) == [g EXCEPT !.ops = @ + 1]

\* LoadData if it added the batch's nulls to hdr.nn on a NOT NULL column too
LoadDataCountsNulls(nvs) ==
    /\ WriterFree
    /\ Budget
    /\ HasFree(dpn)
    /\ Len(img) + Len(nvs) <= MaxRows
    /\ \E xid \in GetIDs :
       \E S1 \in {PreparePackForLoad(Cur, xid)} :
       \E S2 \in {IF S1.ok THEN LoadDataPackN(S1, Len(S1.m_idx) - 1, nvs, col.notnull)
                  ELSE S1} :
       \E S3 \in {IF S2.ok /\ ~Trivial(S2.dpn[S2.m_idx[Len(S2.m_idx)]])
                  THEN Save(S2, S2.m_idx[Len(S2.m_idx)]) ELSE S2} :
       \E S4 \in {IF S3.ok
                  THEN [S3 EXCEPT !.hdr.nr = @ + Len(nvs),
                                  !.hdr.nn = @ + NumOfNulls(nvs)]
                  ELSE S3} :
          /\ Apply(S4)
          /\ th' = Outcome(S4)
          /\ img' = IF S4.ok THEN img \o Eff(nvs, col.notnull) ELSE img
    /\ no_change' = FALSE
    /\ gh' = Spend(gh)
    /\ UNCHANGED <<m_tx, m_version, vfile, col, committed, nextXid, removed, gimg, wr,
                   rd>>

\* RCAttr::LoadData(nvs)
LoadData(nvs) ==
    /\ WriterFree
    /\ Budget
    /\ HasFree(dpn)
    /\ Len(img) + Len(nvs) <= MaxRows
    /\ \E xid \in GetIDs :
       \E S1 \in {PreparePackForLoad(Cur, xid)} :
       \E S2 \in {IF S1.ok THEN LoadDataPackN(S1, Len(S1.m_idx) - 1, nvs, col.notnull)
                  ELSE S1} :
       \E S3 \in {IF S2.ok /\ ~Trivial(S2.dpn[S2.m_idx[Len(S2.m_idx)]])
                  THEN Save(S2, S2.m_idx[Len(S2.m_idx)]) ELSE S2} :
       \E S4 \in {IF S3.ok
                  THEN [S3 EXCEPT !.hdr.nr = @ + Len(nvs),
                                  !.hdr.nn = @ + (IF col.notnull THEN 0
                                                  ELSE NumOfNulls(nvs))]
                  ELSE S3} :
          /\ Apply(S4)
          /\ th' = Outcome(S4)
          /\ img' = IF S4.ok THEN img \o Eff(nvs, col.notnull) ELSE img
    /\ no_change' = FALSE
    /\ gh' = Spend(gh)
    /\ UNCHANGED <<m_tx, m_version, vfile, col, committed, nextXid, removed, gimg, wr,
                   rd>>

\* RCAttr::EncodeValue_T(s, new_val) on a lookup column
EncodeValue_T(s, new_val) ==
    /\ WriterFree
    /\ col.lookup
    /\ hdr.dict_ver < MaxDictVer
    /\ \E S1 \in {LoadPackInfo(Cur)} :
       \E S2 \in {IF GetEncodedValue(S1.dcache[S1.m_dict].entries, s) < 0 /\ new_val
                  THEN (IF InTx THEN DictAdd(S1, s) ELSE Crash(S1))
                  ELSE S1} :
          /\ Apply(S2)
          /\ th' = Outcome(S2)
    /\ UNCHANGED <<m_tx, m_version, no_change, vfile, col, committed, nextXid, removed,
                   img, gimg, wr, rd, gh>>

\* the integer values, the strings of a lookup column, the batches of LoadData
\* and the values of UpdateData
Values == 0 .. MaxVal
Strs == 1 .. NStr
Batches == UNION {[1 .. n -> Values \cup {NULL_VALUE_64}] : n \in 1 .. MaxBatch}
UpdateValues == (IF col.lookup THEN Strs ELSE Values) \cup {NULL_VALUE_64}

\* row2pack and row2offset
row2pack(row) == row \div PackSize
row2offset(row) == row % PackSize

\* RCAttr::UpdateData(row, v), up to the entry of LockPackForUse(pn); on a
\* lookup column v is a string
UpdateDataBegin(row, v) ==
    /\ WriterFree
    /\ Budget
    /\ HasFree(dpn)
    /\ row \in 0 .. (hdr.nr - 1)
    /\ v \in UpdateValues
    /\ col.lookup => hdr.dict_ver < MaxDictVer
    /\ IF row2pack(row) >= Len(m_idx)
       THEN th' = [th EXCEPT ![W].pc = "fault"] /\ gh' = Spend(gh)
       ELSE LockEnterCore(W, row2pack(row))
    /\ wr' = [wr EXCEPT !.op = "pending", !.row = row, !.val = v]
    /\ no_change' = FALSE
    /\ UNCHANGED <<shareVars, hdr, m_idx, m_tx, m_version, m_dict, dcache, dfile, vfile,
                   col, committed, nextXid, removed, img, gimg, rd>>

\* the re-calculation of hdr.min and hdr.max over the packs that are not null only
HdrMin(S) ==
    LET live == {k \in 1 .. Len(S.m_idx) : ~NullOnly(S.dpn[S.m_idx[k]])}
    IN  IF live = {} THEN PLUS_INF_64
        ELSE CHOOSE m \in {S.dpn[S.m_idx[k]].min_i : k \in live} :
                \A k \in live : m <= S.dpn[S.m_idx[k]].min_i
HdrMax(S) ==
    LET live == {k \in 1 .. Len(S.m_idx) : ~NullOnly(S.dpn[S.m_idx[k]])}
    IN  IF live = {} THEN MINUS_INF_64
        ELSE CHOOSE m \in {S.dpn[S.m_idx[k]].max_i : k \in live} :
                \A k \in live : m >= S.dpn[S.m_idx[k]].max_i

\* tab->UpdateIndex(current_tx, nkey, okey, row) answers DUPP_KEY: the new key
\* is the value of another row
KeyTaken(row, v) == \E r \in 1 .. Len(img) : r # row + 1 /\ img[r] = v
\* RCAttr::UpdateIfIndex(row, col, v) throws: on a primary-key column, for a
\* null and for a key that is taken
KeyThrows(row, v) == col.pk /\ (v = NULL_VALUE_64 \/ KeyTaken(row, v))

\* what UpdateData has done to the column when UpdateIfIndex throws: nothing,
\* CopyPackForWrite comes after it
CopyBeforeThrow(S) == IF HasFree(S.dpn) THEN CopyPackForWrite(S, row2pack(wr.row), m_tx) ELSE S
BeforeThrow(S) == S

\* RCAttr::UpdateData when UpdateIfIndex throws, with the pack locked: the
\* exception leaves UpdateData through the FunctionExecutor
UpdateIfIndexThrow ==
    /\ th[W].pc = "locked"
    /\ wr.op = "pending"
    /\ KeyThrows(wr.row, wr.val)
    /\ \E S1 \in {BeforeThrow(Cur)} : Apply(S1)
    /\ wr' = [wr EXCEPT !.op = IF wr.val = NULL_VALUE_64 THEN "nullkey" ELSE "dupkey",
                        !.row = 0, !.val = 0]
    /\ gh' = [gh EXCEPT !.rejected = (wr.val # NULL_VALUE_64) \/ @]
    /\ UNCHANGED <<m_tx, m_version, no_change, vfile, col, committed, nextXid, removed,
                   img, gimg, rd, th>>

\* RCAttr::UpdateData from CopyPackForWrite to the statistics of the header,
\* with the pack locked
UpdateDataBody ==
    /\ th[W].pc = "locked"
    /\ wr.op = "pending"
    /\ ~KeyThrows(wr.row, wr.val)
    /\ \E xid \in GetIDs :
       \E S1 \in {CopyPackForWrite(Cur, row2pack(wr.row), xid)} :
       \E c \in {S1.m_idx[row2pack(wr.row) + 1]} :
       \E dpn_save \in {S1.dpn[c]} :
       \E S2 \in {IF S1.ok /\ Trivial(dpn_save)
                  THEN [S1 EXCEPT !.cache = GetOrFetchObject(S1.dpn, S1.disk, S1.cache, c)]
                  ELSE S1} :
       \E enc \in {col.lookup /\ wr.val # NULL_VALUE_64} :
       \E S3 \in {IF ~enc \/ ~S2.ok THEN S2
                  ELSE IF /\ ~InTx
                          /\ S2.m_dict # 0
                          /\ GetEncodedValue(S2.dcache[S2.m_dict].entries, wr.val) < 0
                  THEN Crash(S2)
                  ELSE DictAdd(S2, wr.val)} :
       \E code \in {IF enc /\ S3.ok
                    THEN GetEncodedValue(S3.dcache[S3.m_dict].entries, wr.val)
                    ELSE wr.val} :
       \E S4 \in {IF S3.ok THEN UpdateValue(S3, c, row2offset(wr.row), code) ELSE S3} :
       \E S5 \in {[S4 EXCEPT !.dpn[c].synced = FALSE,
                             !.hdr.nn = (@ - dpn_save.nn) + S4.dpn[c].nn]} :
       \E d \in {S5.dpn[c]} :
       \E S6 \in {[S5 EXCEPT !.hdr.min = IF d.min_i < @ THEN d.min_i ELSE HdrMin(S5),
                             !.hdr.max = IF d.max_i > @ THEN d.max_i ELSE HdrMax(S5)]} :
       \E S7 \in {IF S4.ok THEN S6 ELSE S4} :
          /\ Apply(S7)
          /\ th' = Outcome(S7)
          /\ img' = IF S7.ok THEN [img EXCEPT ![wr.row + 1] = code] ELSE img
    /\ wr' = [wr EXCEPT !.op = "done", !.row = 0, !.val = 0]
    /\ UNCHANGED <<m_tx, m_version, no_change, vfile, col, committed, nextXid, removed,
                   gimg, rd, gh>>

\* UpdateData's FunctionExecutor calls UnlockPackFromUse(pn) on the way out
UpdateDataUnlock ==
    /\ wr.op \in {"done", "nullkey", "dupkey"}
    /\ UnlockEnterCore(W)
    /\ wr' = [wr EXCEPT !.op = "none"]
    /\ UNCHANGED <<shareVars, hdr, m_idx, m_tx, m_version, no_change, m_dict, dcache,
                   dfile, vfile, col, committed, nextXid, removed, img, gimg, rd, gh>>

\* COL_VER_HDR{}
HdrZero == [nr |-> 0, nn |-> 0, np |-> 0, min |-> 0, max |-> 0, dict_ver |-> 0]

\* RCAttr::Truncate()
Truncate ==
    /\ WriterFree
    /\ gh.truncs < MaxTruncate
    /\ gh' = [gh EXCEPT !.truncs = @ + 1]
    /\ no_change' = FALSE
    /\ hdr' = [HdrZero EXCEPT !.dict_ver = IF col.lookup THEN 1 ELSE 0]
    /\ dfile' = IF col.lookup THEN [dfile EXCEPT ![1] = <<>>] ELSE dfile
    /\ m_idx' = <<>>
    /\ img' = <<>>
    /\ UNCHANGED <<shareVars, m_tx, m_version, m_dict, dcache, vfile, col, committed,
                   nextXid, removed, gimg, wr, rd, th>>

\* cache.DropObject(c)
DropObject(ch, c) == [ch EXCEPT ![c] = NoPack]
\* Pack::Unlock()
Unlock(ch, p) == [ch EXCEPT ![p].lock = IF @ > 0 THEN @ - 1 ELSE 0]

\* the body of the loop if it unlocked the Pack of a DPN without saving it
SaveOneSkipsSave(S, k) ==
    LET c == S.m_idx[k]
        d == S.dpn[c]
        p == PackOfWord(d.ptr)
    IN  IF ~IsLocal(d) THEN S
        ELSE IF Trivial(d) \/ d.synced
        THEN IF tag_mask(d.ptr) # 0
             THEN [S EXCEPT !.cache = DropObject(Unlock(S.cache, p), c), !.dpn[c].ptr = 0]
             ELSE S
        ELSE IF ~HasPack(S, c) THEN Crash(S)
        ELSE [S EXCEPT !.cache = Unlock(S.cache, p), !.dpn[c].ptr = 0]

\* the body of the loop if it left a trivial or synced DPN as it found it
SaveOneKeepsWord(S, k) ==
    LET c == S.m_idx[k]
        d == S.dpn[c]
        p == PackOfWord(d.ptr)
    IN  IF ~IsLocal(d) \/ Trivial(d) \/ d.synced THEN S
        ELSE IF ~HasPack(S, c) THEN Crash(S)
        ELSE LET S1 == Save(S, c)
             IN  [S1 EXCEPT !.cache = Unlock(S1.cache, p), !.dpn[c].ptr = 0]

\* the body of SaveVersion's loop for the DPN at position k of m_idx
SaveOne(S, k) ==
    LET c == S.m_idx[k]
        d == S.dpn[c]
        p == PackOfWord(d.ptr)
    IN  IF ~IsLocal(d) THEN S
        ELSE IF Trivial(d) \/ d.synced
        THEN IF tag_mask(d.ptr) # 0
             THEN [S EXCEPT !.cache = DropObject(Unlock(S.cache, p), c), !.dpn[c].ptr = 0]
             ELSE S
        ELSE IF ~HasPack(S, c) THEN Crash(S)
        ELSE LET S1 == Save(S, c)
             IN  [S1 EXCEPT !.cache = Unlock(S1.cache, p), !.dpn[c].ptr = 0]

RECURSIVE SaveLoop(_, _)
SaveLoop(S, k) ==
    IF k > Len(S.m_idx) \/ ~S.ok THEN S
    ELSE CHOOSE R \in {SaveLoop(S1, k + 1) : S1 \in {SaveOne(S, k)}} : TRUE

AnyLocal == \E k \in 1 .. Len(m_idx) : IsLocal(dpn[m_idx[k]])

\* FTree::SaveData(DICT/<dict_ver>) of a changed dictionary, which is then clean
SaveDict(S) ==
    IF S.m_dict # 0 /\ S.dcache[S.m_dict].changed
    THEN [S EXCEPT !.dfile[S.hdr.dict_ver] = S.dcache[S.m_dict].entries,
                   !.dcache[S.m_dict].changed = FALSE]
    ELSE S

\* &m_idx[0]: the address handed to WriteExact and ReadExact. On an empty
\* vector operator[] has no element to refer to: the library either yields the
\* start of the storage, and no byte is transferred, or stops the process on
\* its bounds assertion
IndexAddr(idx) == IF Len(idx) = 0 THEN {"data", "abort"} ELSE {"data"}

\* fattr.ReadExact(&hdr, sizeof(hdr)); m_idx.resize(hdr.np);
\* fattr.ReadExact(&m_idx[0], sizeof(PACK_INDEX) * hdr.np)
LoadVersion(f) ==
    [hdr |-> f.hdr,
     m_idx |-> [k \in 1 .. f.hdr.np |-> IF k <= Len(f.idx) THEN f.idx[k] ELSE 0]]

\* RCAttr::SaveVersion()
SaveVersion ==
    /\ WriterFree
    /\ IF ~InTx
       THEN /\ th' = [th EXCEPT ![W].pc = "fault"]
            /\ UNCHANGED <<shareVars, hdr, m_idx, no_change, m_dict, dcache, dfile, vfile,
                           wr>>
       ELSE /\ \E S1 \in {SaveLoop(Cur, 1)} :
               \E nc \in {no_change /\ ~AnyLocal} :
               \E S2 \in {IF Len(S1.m_idx) # 0
                          THEN [SaveDict(S1) EXCEPT !.hdr.np = Len(S1.m_idx)]
                          ELSE S1} :
               \E S3 \in {IF nc \/ ~S1.ok THEN S1 ELSE S2} :
               \E a \in (IF nc \/ ~S1.ok THEN {"data"} ELSE IndexAddr(S3.m_idx)) :
                  /\ Apply(S3)
                  /\ th' = IF a = "abort" THEN [th EXCEPT ![W].pc = "fault"] ELSE Outcome(S3)
                  /\ no_change' = nc
                  /\ vfile' = IF nc \/ ~S1.ok THEN vfile
                              ELSE [vfile EXCEPT ![m_tx] =
                                      [in |-> TRUE, hdr |-> S3.hdr,
                                       idx |-> SubSeq(S3.m_idx, 1, S3.hdr.np)]]
                  /\ wr' = IF a = "abort" THEN wr ELSE [wr EXCEPT !.prepared = TRUE]
    /\ UNCHANGED <<m_tx, m_version, col, committed, nextXid, removed, img, gimg, rd, gh>>

\* rceng->MaxXID(): the largest transaction id handed out
MaxXID == nextXid - 1

\* the id PostCommit would leave in m_version if it did not move to the writer's
StaleID == m_version
\* m_tx->GetID(): the writer's transaction id
GetID == m_tx

\* the filter directories, and the files PostCommit hands to rceng->DeferRemove:
\* VERSION/<ver> and, for each filter kind the share has, FILTER/<kind>/<ver>
FilterKinds == {"BLOOM", "CMAP", "HIST"}
OnlyVersionFile(ver, filters) == {<<"VERSION", ver>>}
DeferRemove(ver, filters) == {<<"VERSION", ver>>} \cup {<<k, ver>> : k \in filters}

\* RCAttr::PostCommit()
PostCommit ==
    /\ th[W].pc = "idle"
    /\ m_tx # 0
    /\ wr.prepared
    /\ LET locals == {m_idx[k] : k \in {j \in 1 .. Len(m_idx) : IsLocal(dpn[m_idx[j]])}}
           bases == {dpn[c].base : c \in locals} \ {INVALID_PACK_INDEX}
       IN  IF ~no_change
           THEN /\ dpn' = [i \in DpnIdx |->
                            IF i \in locals THEN [dpn[i] EXCEPT !.local = FALSE]
                            ELSE IF i \in bases THEN [dpn[i] EXCEPT !.xmax = MaxXID]
                            ELSE dpn[i]]
                /\ removed' = removed \cup DeferRemove(m_version, col.filters)
                /\ m_version' = GetID
                /\ committed' = m_tx
                /\ gimg' = [gimg EXCEPT ![m_tx] = img]
           ELSE UNCHANGED <<dpn, removed, m_version, committed, gimg>>
    /\ m_tx' = 0
    /\ wr' = [wr EXCEPT !.prepared = FALSE]
    /\ UNCHANGED <<cache, disk, hdr, m_idx, no_change, m_dict, dcache, dfile, vfile, col,
                   nextXid, img, rd, th, gh>>

\* RCAttr::Rollback()
Rollback ==
    /\ th[W].pc = "idle"
    /\ m_tx # 0
    /\ LET locals == {m_idx[k] : k \in {j \in 1 .. Len(m_idx) : IsLocal(dpn[m_idx[j]])}}
       IN  /\ dpn' = [i \in DpnIdx |-> IF i \in locals THEN DpnReset ELSE dpn[i]]
           /\ cache' = [i \in DpnIdx |-> IF i \in locals THEN NoPack ELSE cache[i]]
    /\ m_tx' = 0
    /\ wr' = [wr EXCEPT !.prepared = FALSE]
    /\ UNCHANGED <<disk, hdr, m_idx, m_version, no_change, m_dict, dcache, dfile, vfile,
                   col, committed, nextXid, removed, img, gimg, rd, th, gh>>

\* the next transaction's controller: RCAttr::LoadVersion(xid) of the table's
\* current version
BeginTx ==
    /\ th[W].pc = "idle"
    /\ m_tx = 0
    /\ nextXid <= MaxXid
    /\ vfile[committed].in
    /\ \E v \in {LoadVersion(vfile[committed])} :
       \E a \in IndexAddr(v.m_idx) :
       \E S1 \in {[Cur EXCEPT !.hdr = v.hdr, !.m_idx = v.m_idx, !.m_dict = 0]} :
       \E S2 \in {IF S1.hdr.dict_ver # 0 THEN FetchDict(S1, S1.hdr.dict_ver) ELSE S1} :
          IF a = "abort"
          THEN /\ th' = [th EXCEPT ![W].pc = "fault"]
               /\ UNCHANGED <<shareVars, hdr, m_idx, m_dict, dcache, dfile, m_version, m_tx,
                              nextXid, no_change, img>>
          ELSE /\ Apply(S2)
               /\ m_version' = committed
               /\ m_tx' = nextXid
               /\ nextXid' = nextXid + 1
               /\ no_change' = TRUE
               /\ img' = gimg[committed]
               /\ th' = th
    /\ UNCHANGED <<vfile, col, committed, removed, gimg, wr, rd, gh>>

(***************************************************************************)
(* A reader's controller.                                                  *)
(***************************************************************************)
\* a reader's controller is constructed on the table's current version
ReaderLoad(t) ==
    /\ th[t].pc = "idle"
    /\ vfile[committed].in
    /\ rd[t].ver # committed
    /\ rd' = [rd EXCEPT ![t] = [m_idx |-> vfile[committed].idx, ver |-> committed]]
    /\ UNCHANGED <<shareVars, ctlVars, th, gh>>

\* RCAttr::GetValueInt64(row) with the row's pack locked: the value of the body
\* get_packN(pack) points to, or what the statistics of a trivial DPN say
GetValueInt64(t, row) ==
    LET d == dpn[get_pc(t, row2pack(row))]
        p == PackOfWord(d.ptr)
    IN  IF ~Trivial(d) THEN cache[p].vals[row2offset(row) + 1]
        ELSE IF NullOnly(d) THEN NULL_VALUE_64
        ELSE d.min_i

ReaderRead(t, off) ==
    LET row == th[t].pn * PackSize + off
        d == dpn[get_pc(t, th[t].pn)]
        p == PackOfWord(d.ptr)
    IN  /\ th[t].pc = "locked"
        /\ off < d.nr
        /\ IF Trivial(d) \/ (IsPtrWord(d.ptr) /\ cache[p].in /\ off < Len(cache[p].vals))
           THEN th' = [th EXCEPT ![t].seen = [has |-> TRUE, row |-> row,
                                              val |-> GetValueInt64(t, row)]]
           ELSE th' = [th EXCEPT ![t].pc = "fault"]
        /\ UNCHANGED <<shareVars, ctlVars, rd, gh>>

(***************************************************************************)
(* Readers that lock and unlock the packs of one committed version.        *)
(***************************************************************************)
\* no call of EncodeValue64 is in progress
EncIdle == [pc |-> "none", v0 |-> 0, p0 |-> 0, vv |-> 0, vp |-> 0, dplaces |-> 0,
            rounded |-> FALSE, ret |-> 0]
WrInit == [op |-> "none", row |-> 0, val |-> 0, prepared |-> FALSE, enc |-> EncIdle]
GhInit ==
    [hist |-> FALSE, rejected |-> FALSE, ops |-> 0, truncs |-> 0, nFetch |-> 0, nWin |-> 0, calls |-> [t \in Threads |-> 0],
     failed |-> [t \in Threads |-> FALSE], waited |-> [t \in Threads |-> FALSE],
     loader |-> [d \in DpnIdx |-> W]]

\* a committed column of two packs: pack 0 has a body on disk, pack 1 is
\* nulls only
InitLock ==
    /\ dpn = [i \in DpnIdx |->
                IF i = 0 THEN [DpnReset EXCEPT !.used = TRUE, !.synced = TRUE,
                                 !.base = INVALID_PACK_INDEX, !.nr = 2, !.min_i = 0,
                                 !.max_i = 1, !.sum_i = 1, !.addr = 1, !.xmax = MAX_XID]
                ELSE IF i = 1 THEN [DpnReset EXCEPT !.used = TRUE, !.synced = TRUE,
                                 !.base = INVALID_PACK_INDEX, !.nr = 2, !.nn = 2,
                                 !.xmax = MAX_XID]
                ELSE DpnReset]
    /\ cache = [i \in DpnIdx |-> NoPack]
    /\ disk = [a \in 1 .. NDpn |-> IF a = 1 THEN <<0, 1>> ELSE <<>>]
    /\ hdr = [nr |-> 4, nn |-> 2, np |-> 2, min |-> 0, max |-> 1, dict_ver |-> 0]
    /\ m_idx = <<0, 1>>
    /\ m_tx = 0
    /\ m_version = 0
    /\ no_change = TRUE
    /\ m_dict = 0
    /\ dcache = [k \in 1 .. MaxDictVer |-> NoDict]
    /\ dfile = [k \in 1 .. MaxDictVer |-> NoFile]
    /\ vfile = [x \in 0 .. MaxXid |-> NoVersion]
    /\ col = [lookup |-> FALSE, notnull |-> FALSE, pk |-> FALSE, filters |-> FilterKinds]
    /\ committed = 0
    /\ nextXid = 1
    /\ removed = {}
    /\ img = <<0, 1, NULL_VALUE_64, NULL_VALUE_64>>
    /\ gimg = [x \in 0 .. MaxXid |-> <<>>]
    /\ wr = WrInit
    /\ rd = [t \in Readers |-> [m_idx |-> <<0, 1>>, ver |-> 0]]
    /\ th = [t \in Threads |-> ThInit]
    /\ gh = [GhInit EXCEPT !.hist = TRUE]

NextLock ==
    \/ \E t \in Readers : \E pn \in 0 .. 1 : LockEnter(t, pn)
    \/ \E t \in Readers : IncRefLoad(t)
    \/ \E t \in Readers : IncRefCas(t)
    \/ \E t \in Readers : LoadCas(t)
    \/ \E t \in Readers : FetchStep(t)
    \/ \E t \in Readers : Install(t)
    \/ \E t \in Readers : CatchReset(t)
    \/ \E t \in Readers : Sleep(t)
    \/ \E t \in Readers : UnlockEnter(t)
    \/ \E t \in Readers : UnlockCas(t)
    \/ \E t \in Readers : PackUnlock(t)
    \/ \E c \in DpnIdx : Evict(c)

SpecLock == InitLock /\ [][NextLock]_vars

\* a thread's steps inside LockPackForUse and UnlockPackFromUse: the scheduler
\* runs every thread that can take a step; it makes nobody call
Step(t) ==
    \/ IncRefLoad(t) \/ IncRefCas(t) \/ LoadCas(t) \/ FetchStep(t)
    \/ Install(t) \/ CatchReset(t) \/ Sleep(t) \/ UnlockCas(t) \/ PackUnlock(t)

FairLock == InitLock /\ [][NextLock]_vars /\ \A t \in Readers : WF_vars(Step(t))

(***************************************************************************)
(* One writer: transactions that append, update, truncate, save and commit *)
(* or roll back, on a column that RCAttr::Create has just made.            *)
(***************************************************************************)
\* rows RCAttr::Create is asked for
MaxCreate == 2

\* the column types: integer, nullable or not, and lookup
IntCols ==
    {[lookup |-> FALSE, notnull |-> n, pk |-> FALSE, filters |-> FilterKinds] : n \in BOOLEAN}
LookupCols == {[lookup |-> TRUE, notnull |-> FALSE, pk |-> FALSE, filters |-> FilterKinds]}

\* common::rows2packs
rows2packs(n) == (n + PackSize - 1) \div PackSize

\* the DN file if Create wrote every DPN full
CreateDpnAllFull(no_rows) ==
    [i \in DpnIdx |->
       IF i >= rows2packs(no_rows) THEN DpnReset
       ELSE [DpnReset EXCEPT !.used = TRUE, !.nn = PackSize, !.nr = PackSize,
                             !.xmax = MAX_XID, !.addr = DPN_INVALID_ADDR]]

\* RCAttr::Create: the DN file, all DPNs null only, the last one with the rest
CreateDpn(no_rows) ==
    LET no_pack == rows2packs(no_rows)
        left == no_rows % PackSize
    IN  [i \in DpnIdx |->
           IF i >= no_pack THEN DpnReset
           ELSE LET n == IF i = no_pack - 1 /\ left # 0 THEN left ELSE PackSize
                IN  [DpnReset EXCEPT !.used = TRUE, !.nn = n, !.nr = n,
                                     !.xmax = MAX_XID, !.addr = DPN_INVALID_ADDR]]

\* RCAttr::Create: the header of version 0
CreateHdr(no_rows, c) ==
    [HdrZero EXCEPT !.nr = no_rows, !.nn = no_rows, !.np = rows2packs(no_rows),
                    !.dict_ver = IF c.lookup THEN 1 ELSE 0]

\* after Create(no_rows) and the construction of the controller of transaction 1
InitColumn(no_rows, c, w) ==
        /\ col = c
        /\ dpn = CreateDpn(no_rows)
        /\ cache = [i \in DpnIdx |-> NoPack]
        /\ disk = [a \in 1 .. NDpn |-> <<>>]
        /\ hdr = CreateHdr(no_rows, c)
        /\ m_idx = [k \in 1 .. rows2packs(no_rows) |-> k - 1]
        /\ m_tx = 1
        /\ m_version = 0
        /\ no_change = TRUE
        /\ m_dict = IF c.lookup THEN 1 ELSE 0
        /\ dcache = [k \in 1 .. MaxDictVer |->
                       IF k = 1 /\ c.lookup
                       THEN [in |-> TRUE, entries |-> <<>>, changed |-> FALSE]
                       ELSE NoDict]
        /\ dfile = [k \in 1 .. MaxDictVer |-> IF k = 1 /\ c.lookup THEN <<>> ELSE NoFile]
        /\ vfile = [x \in 0 .. MaxXid |->
                      IF x = 0 THEN [in |-> TRUE, hdr |-> CreateHdr(no_rows, c),
                                     idx |-> [k \in 1 .. rows2packs(no_rows) |-> k - 1]]
                      ELSE NoVersion]
        /\ committed = 0
        /\ nextXid = 2
        /\ removed = {}
        /\ img = Seq2(no_rows, NULL_VALUE_64)
        /\ gimg = [x \in 0 .. MaxXid |-> IF x = 0 THEN Seq2(no_rows, NULL_VALUE_64) ELSE <<>>]
        /\ wr = w
        /\ rd = [t \in Readers |-> [m_idx |-> <<>>, ver |-> 0]]
        /\ th = [t \in Threads |-> ThInit]
        /\ gh = GhInit

InitCreate(cols) ==
    \E no_rows \in 0 .. MaxCreate : \E c \in cols : InitColumn(no_rows, c, WrInit)

InitTx == InitCreate(IntCols)

NextTx ==
    \/ \E nvs \in Batches : InTx /\ LoadData(nvs)
    \/ \E row \in 0 .. (MaxRows - 1) : \E v \in UpdateValues : InTx /\ UpdateDataBegin(row, v)
    \/ IncRefLoad(W)
    \/ IncRefCas(W)
    \/ LoadCas(W)
    \/ FetchStep(W)
    \/ Install(W)
    \/ CatchReset(W)
    \/ UpdateDataBody
    \/ UpdateDataUnlock
    \/ UnlockCas(W)
    \/ PackUnlock(W)
    \/ InTx /\ Truncate
    \/ InTx /\ SaveVersion
    \/ PostCommit
    \/ Rollback
    \/ BeginTx
    \/ \E c \in DpnIdx : Evict(c)

SpecTx == InitTx /\ [][NextTx]_vars

(***************************************************************************)
(* One writer on a lookup column: the dictionary and its versions.         *)
(***************************************************************************)
InitDict == InitCreate(LookupCols)

NextDict ==
    \/ \E nvs \in {b \in Batches : Len(b) = 1} : InTx /\ LoadData(nvs)
    \/ \E s \in Strs : \E new_val \in BOOLEAN : InTx /\ EncodeValue_T(s, new_val)
    \/ \E row \in 0 .. (MaxRows - 1) : \E v \in UpdateValues : InTx /\ UpdateDataBegin(row, v)
    \/ IncRefLoad(W)
    \/ IncRefCas(W)
    \/ LoadCas(W)
    \/ FetchStep(W)
    \/ Install(W)
    \/ CatchReset(W)
    \/ UpdateDataBody
    \/ UpdateDataUnlock
    \/ UnlockCas(W)
    \/ PackUnlock(W)
    \/ InTx /\ Truncate
    \/ InTx /\ SaveVersion
    \/ PostCommit
    \/ Rollback
    \/ BeginTx
    \/ \E c \in DpnIdx : Evict(c)

SpecDict == InitDict /\ [][NextDict]_vars

(***************************************************************************)
(* One writer that updates a committed column while a reader reads it.     *)
(***************************************************************************)
\* the readers of this scenario
NCowReaders == 1
CowReaders == 1 .. NCowReaders

\* version 0 of a column of two packs, as in InitLock, and the controller of
\* transaction 1
InitCow ==
    /\ dpn = [i \in DpnIdx |->
                IF i = 0 THEN [DpnReset EXCEPT !.used = TRUE, !.synced = TRUE,
                                 !.base = INVALID_PACK_INDEX, !.nr = 2, !.min_i = 0,
                                 !.max_i = 1, !.sum_i = 1, !.addr = 1, !.xmax = MAX_XID]
                ELSE IF i = 1 THEN [DpnReset EXCEPT !.used = TRUE, !.synced = TRUE,
                                 !.base = INVALID_PACK_INDEX, !.nr = 2, !.nn = 2,
                                 !.xmax = MAX_XID]
                ELSE DpnReset]
    /\ cache = [i \in DpnIdx |-> NoPack]
    /\ disk = [a \in 1 .. NDpn |-> IF a = 1 THEN <<0, 1>> ELSE <<>>]
    /\ hdr = [nr |-> 4, nn |-> 2, np |-> 2, min |-> 0, max |-> 1, dict_ver |-> 0]
    /\ m_idx = <<0, 1>>
    /\ m_tx = 1
    /\ m_version = 0
    /\ no_change = TRUE
    /\ m_dict = 0
    /\ dcache = [k \in 1 .. MaxDictVer |-> NoDict]
    /\ dfile = [k \in 1 .. MaxDictVer |-> NoFile]
    /\ vfile = [x \in 0 .. MaxXid |->
                  IF x = 0
                  THEN [in |-> TRUE,
                        hdr |-> [nr |-> 4, nn |-> 2, np |-> 2, min |-> 0, max |-> 1,
                                 dict_ver |-> 0],
                        idx |-> <<0, 1>>]
                  ELSE NoVersion]
    /\ col = [lookup |-> FALSE, notnull |-> FALSE, pk |-> FALSE, filters |-> FilterKinds]
    /\ committed = 0
    /\ nextXid = 2
    /\ removed = {}
    /\ img = <<0, 1, NULL_VALUE_64, NULL_VALUE_64>>
    /\ gimg = [x \in 0 .. MaxXid |->
                 IF x = 0 THEN <<0, 1, NULL_VALUE_64, NULL_VALUE_64>> ELSE <<>>]
    /\ wr = WrInit
    /\ rd = [t \in Readers |-> [m_idx |-> <<0, 1>>, ver |-> 0]]
    /\ th = [t \in Threads |-> ThInit]
    /\ gh = GhInit

CowThreads == {W} \cup CowReaders

NextCow ==
    \/ \E row \in 0 .. (MaxRows - 1) : \E v \in UpdateValues : InTx /\ UpdateDataBegin(row, v)
    \/ UpdateDataBody
    \/ UpdateDataUnlock
    \/ InTx /\ SaveVersion
    \/ PostCommit
    \/ \E t \in CowReaders : ReaderLoad(t)
    \/ \E t \in CowReaders : \E pn \in 0 .. 1 : LockEnter(t, pn)
    \/ \E t \in CowReaders : \E off \in 0 .. (PackSize - 1) : ReaderRead(t, off)
    \/ \E t \in CowReaders : UnlockEnter(t)
    \/ \E t \in CowThreads : IncRefLoad(t)
    \/ \E t \in CowThreads : IncRefCas(t)
    \/ \E t \in CowThreads : LoadCas(t)
    \/ \E t \in CowThreads : FetchStep(t)
    \/ \E t \in CowThreads : Install(t)
    \/ \E t \in CowThreads : CatchReset(t)
    \/ \E t \in CowThreads : Sleep(t)
    \/ \E t \in CowThreads : UnlockCas(t)
    \/ \E t \in CowThreads : PackUnlock(t)
    \/ \E c \in DpnIdx : Evict(c)

SpecCow == InitCow /\ [][NextCow]_vars

(***************************************************************************)
(* One writer that appends, truncates, saves and commits or rolls back, on *)
(* columns that have any of the three filters.                             *)
(***************************************************************************)
FilterCols ==
    {[lookup |-> FALSE, notnull |-> FALSE, pk |-> FALSE, filters |-> f] :
        f \in SUBSET FilterKinds}

InitCommit == InitCreate(FilterCols)

NextCommit ==
    \/ \E nvs \in {b \in Batches : Len(b) = 1} : InTx /\ LoadData(nvs)
    \/ InTx /\ Truncate
    \/ InTx /\ SaveVersion
    \/ PostCommit
    \/ Rollback
    \/ BeginTx

SpecCommit == InitCommit /\ [][NextCommit]_vars

(***************************************************************************)
(* One writer on a column that is the table's primary key.                 *)
(***************************************************************************)
PkCols == {[lookup |-> FALSE, notnull |-> TRUE, pk |-> TRUE, filters |-> FilterKinds]}

InitPk == InitCreate(PkCols)

NextPk ==
    \/ \E nvs \in {b \in Batches : Len(b) = 1} : InTx /\ LoadData(nvs)
    \/ \E row \in 0 .. (MaxRows - 1) : \E v \in UpdateValues : InTx /\ UpdateDataBegin(row, v)
    \/ IncRefLoad(W)
    \/ IncRefCas(W)
    \/ LoadCas(W)
    \/ FetchStep(W)
    \/ Install(W)
    \/ CatchReset(W)
    \/ UpdateIfIndexThrow
    \/ UpdateDataBody
    \/ UpdateDataUnlock
    \/ UnlockCas(W)
    \/ PackUnlock(W)
    \/ InTx /\ SaveVersion
    \/ PostCommit
    \/ Rollback
    \/ BeginTx
    \/ \E c \in DpnIdx : Evict(c)

SpecPk == InitPk /\ [][NextPk]_vars

(***************************************************************************)
(* A controller without a transaction handle: the first transaction loads  *)
(* rows and ends, by PostCommit or by Rollback, and the mutating handlers  *)
(* are then called on the controller it leaves behind.                     *)
(***************************************************************************)
InitReadOnly == InitCreate({c \in IntCols : ~c.notnull} \cup LookupCols)

NextReadOnly ==
    \/ \E nvs \in {b \in Batches : Len(b) = 1} : LoadData(nvs)
    \/ \E s \in Strs : \E new_val \in BOOLEAN : ~InTx /\ EncodeValue_T(s, new_val)
    \/ \E row \in 0 .. (MaxRows - 1) : \E v \in UpdateValues :
          ~InTx /\ UpdateDataBegin(row, v)
    \/ IncRefLoad(W)
    \/ IncRefCas(W)
    \/ LoadCas(W)
    \/ FetchStep(W)
    \/ Install(W)
    \/ CatchReset(W)
    \/ UpdateDataBody
    \/ UpdateDataUnlock
    \/ UnlockCas(W)
    \/ PackUnlock(W)
    \/ ~InTx /\ Truncate
    \/ SaveVersion
    \/ PostCommit
    \/ Rollback

SpecReadOnly == InitReadOnly /\ [][NextReadOnly]_vars

(***************************************************************************)
(* The lock protocol's properties.                                         *)
(***************************************************************************)
\* the threads that hold a reference on DPN d: LockPackForUse has returned and
\* the CAS of UnlockPackFromUse has not yet given the reference back
Holders(d) == {t \in Threads : th[t].pc \in {"locked", "unl_cas"} /\ th[t].d = d}
InLock(t) == th[t].pc \in {"incref_load", "incref_cas", "cas", "fetch", "install",
                           "catch", "sleep"}
Busy(t) == th[t].pc \notin {"idle", "locked", "fault"}
Loading(t, d) == th[t].pc \in {"fetch", "install", "catch"} /\ th[t].d = d
CommittedBody(d) == dpn[d].used /\ ~IsLocal(dpn[d]) /\ ~Trivial(dpn[d])

\* C1: on a non-trivial committed pack the reference count in the tagged word
\* equals the number of callers that hold a reference (locked, not yet
\* unlocked); the word is a pointer exactly when there is such a caller, and 0
\* (or loading_flag, while a new load is in flight) when there is none.
C1_RefCountIsHolders ==
    \A d \in DpnIdx : CommittedBody(d) =>
        LET n == Cardinality(Holders(d))
            w == dpn[d].ptr
        IN  /\ (n > 0) <=> IsPtrWord(w)
            /\ IsPtrWord(w) => RefCount(w) = n
            /\ (n = 0 /\ ~\E t \in Threads : Loading(t, d)) => w = 0
            /\ \A t \in Threads : th[t].pc # "fault"

\* every reader holds pack 0, and one of them gave its reference back before
C1_Witness ==
    /\ \A t \in Readers : th[t].pc = "locked" /\ th[t].pn = 0
    /\ RefCount(dpn[0].ptr) = NReaders
    /\ \E t \in Readers : gh.calls[t] = 2

\* every reader has called LockPackForUse(0) once and every call has returned
AllLockedOnce ==
    \A t \in Readers : gh.calls[t] = 1 /\ th[t].pc = "locked" /\ th[t].pn = 0

\* C2: when all N readers have locked the unloaded pack once each, exactly one
\* of them won the CAS 0 -> loading_flag, the pack was fetched exactly once and
\* the reference count is N.
C2_OneLoaderCountN ==
    AllLockedOnce =>
        /\ gh.nWin = 1
        /\ gh.nFetch = 1
        /\ IsPtrWord(dpn[0].ptr)
        /\ RefCount(dpn[0].ptr) = NReaders

\* the calls overlapped: one reader had to wait for the loader
C2_Witness == AllLockedOnce /\ \E t \in Readers : gh.waited[t]

\* C4: a word that holds loading_flag is changed only by the thread that set
\* it, with the step that completes its load: to pointer + tag_one after the
\* fetch, to 0 from the catch block.
C4_LoadingFlagOwned ==
    [][\A d \in DpnIdx :
         (dpn[d].ptr = loading_flag /\ dpn'[d].ptr # loading_flag) =>
            LET t == gh.loader[d]
            IN  \/ /\ th[t].pc = "install" /\ th[t].d = d
                   /\ th'[t].pc = "locked"
                   /\ dpn'[d].ptr = PtrOf(th[t].sp) + tag_one
                \/ /\ th[t].pc = "catch" /\ th[t].d = d
                   /\ th'[t].pc = "idle"
                   /\ dpn'[d].ptr = 0]_vars

\* a reader waits while the other one is between its CAS and its install
C4_Witness ==
    \E t, u \in Readers :
        /\ t # u
        /\ th[t].pc = "install" /\ th[t].d = 0
        /\ th[u].pc = "sleep" /\ th[u].d = 0
        /\ dpn[0].ptr = loading_flag

\* C5: a fetch that throws resets the word to 0 and is rethrown to the loader,
\* which holds no reference; the flag is never left behind without a loader, so
\* that a later LockPackForUse can win the CAS 0 -> loading_flag again.
C5_FailedLoadResets ==
    /\ [](\A d \in DpnIdx :
            /\ dpn[d].ptr = loading_flag => Loading(gh.loader[d], d)
            /\ \A t \in Threads :
                 (th[t].res = "threw" /\ th[t].pc = "idle") => t \notin Holders(d))
    /\ [][\A t \in Threads :
            (th[t].pc = "catch" /\ th'[t].pc # "catch") =>
               /\ dpn'[th[t].d].ptr = 0
               /\ th'[t].pc = "idle"
               /\ th'[t].res = "threw"
               /\ Cardinality(Holders(th[t].d)') = Cardinality(Holders(th[t].d))]_vars

\* a reader whose load failed holds the pack after a later load
C5_Witness ==
    \E t \in Readers :
        /\ gh.failed[t]
        /\ th[t].pc = "locked" /\ th[t].pn = 0
        /\ \E u \in Readers : u # t /\ gh.failed[u] /\ th[u].pc = "locked" /\ th[u].pn = 0

C3_ReaderSeesItsVersion ==
    \A t \in Readers :
        th[t].seen.has => th[t].seen.val = gimg[rd[t].ver][th[t].seen.row + 1]

(***************************************************************************)
(* The dictionary and its versions.                                        *)
(***************************************************************************)
\* C7: no call of a controller's transaction (LoadData, UpdateData,
\* EncodeValue_T, Truncate, SaveVersion, PostCommit, Rollback) makes
\* hdr.dict_ver smaller.
C7_DictVerNonDecreasing == [][m_tx # 0 => hdr'.dict_ver >= hdr.dict_ver]_vars

\* the dictionary version of the version the writer's controller loaded: the
\* newest one a reader can hold
LoadedDictVer == vfile[m_version].hdr.dict_ver
\* the step adds a code to a cached dictionary
CodeAdded ==
    \E k \in 1 .. MaxDictVer :
        dcache'[k].in /\ Len(dcache'[k].entries) > Len(dcache[k].entries)

C9_RollbackIsTotal ==
    [][(m_tx # 0 /\ m_tx' = 0 /\ m_version' = m_version) =>
          \A i \in DpnIdx :
              (IsLocal(dpn[i]) /\ dpn[i].xmin = m_tx) =>
                  (dpn'[i] = DpnReset /\ ~cache'[i].in)]_vars

\* C10: after LoadData calls that put R rows in all into a column created
\* empty, and SaveVersion: hdr.nr is R, hdr.np is R divided by the pack size
\* and rounded up, every pack but the last holds exactly the pack size and the
\* last holds no more.
C10_LoadFillsPacks ==
    (/\ wr.prepared
     /\ m_tx = 1
     /\ th[W].pc = "idle"
     /\ gimg[0] = <<>>
     /\ gh.truncs = 0) =>
        /\ hdr.nr = Len(img)
        /\ hdr.np = rows2packs(Len(img))
        /\ \A k \in 1 .. Len(m_idx) :
              IF k < Len(m_idx) THEN dpn[m_idx[k]].nr = PackSize
              ELSE dpn[m_idx[k]].nr <= PackSize

(***************************************************************************)
(* SaveVersion and PostCommit.                                             *)
(***************************************************************************)
\* the transaction has modified hdr, m_idx, a DPN or the dictionary since
\* LoadVersion read the version the controller is on
Modified ==
    \/ hdr # vfile[m_version].hdr
    \/ m_idx # vfile[m_version].idx
    \/ \E i \in DpnIdx : dpn[i].used /\ IsLocal(dpn[i])
    \/ (m_dict # 0 /\ dcache[m_dict].changed)
\* a step that is a call of SaveVersion that returns
SaveVersionStep == m_tx # 0 /\ ~wr.prepared /\ wr'.prepared /\ th'[W].pc = "idle"

\* C11: SaveVersion returns false and writes no version file when nothing was
\* modified since the version was loaded, and otherwise returns true and
\* writes the version file named by the writer's xid
C11_SaveVersionWritesIffModified ==
    [][SaveVersionStep => ((~no_change' /\ vfile'[m_tx].in) <=> Modified)]_vars

\* C12 as stated: after PostCommit m_version is the writer's transaction id and
\* the transaction handle is cleared, for every transaction that reached
\* PostCommit
C12_PostCommitAlwaysMovesVersion ==
    [][PostCommit => (m_tx' = 0 /\ m_version' = m_tx)]_vars

\* C12 amended: PostCommit always clears the transaction handle; m_version
\* becomes the writer's transaction id when the transaction saved a version
\* (no_change is false) and stays what it was when it saved none
C12_PostCommitMovesVersionIfSaved ==
    [][PostCommit => /\ m_tx' = 0
                     /\ ~no_change => (m_version' = m_tx /\ vfile[m_tx].in)
                     /\ no_change => (m_version' = m_version /\ ~vfile[m_tx].in)]_vars
\* both cases have happened: transaction 1 saved a version and committed, the
\* next one reached PostCommit with nothing to save
C12_Witness ==
    m_tx = 0 /\ m_version = 1 /\ nextXid = 3 /\ no_change /\ vfile[1].in /\ ~vfile[2].in

\* C13 as stated: PostCommit of a transaction that saved a version schedules
\* the removal of the previous version file and of the BLOOM, CMAP and HIST
\* filter files of the previous version, and of no file of the writer's xid
C13_RemovesAllPreviousFiles ==
    [][(PostCommit /\ ~no_change) =>
          /\ DeferRemove(m_version, FilterKinds) \subseteq removed'
          /\ \A f \in removed' : f[2] # m_tx]_vars

\* C13 amended: it schedules the previous version file and the filter file of
\* the previous version for each filter kind the column has, nothing else, and
\* no file named by the writer's own xid
C13_RemovesPreviousFilesItHas ==
    [][(PostCommit /\ ~no_change) =>
          /\ removed' = removed \cup ({<<"VERSION", m_version>>}
                                      \cup {<<k, m_version>> : k \in col.filters})
          /\ \A f \in removed' : f[2] # m_tx]_vars
\* a column with the histogram filter only has committed a second version
C13_Witness ==
    /\ col.filters = {"HIST"}
    /\ m_tx = 0
    /\ m_version = 2
    /\ removed = {<<"VERSION", 0>>, <<"HIST", 0>>, <<"VERSION", 1>>, <<"HIST", 1>>}

(***************************************************************************)
(* Calls on a controller that has no transaction handle.                   *)
(***************************************************************************)
\* the statistics and the identity of the DPNs: all but the tagged word, which
\* LockPackForUse and UnlockPackFromUse change on behalf of readers too
DpnData == [i \in DpnIdx |-> [dpn[i] EXCEPT !.ptr = 0]]
\* the entries of the dictionaries in the cache
DictData == [k \in 1 .. MaxDictVer |-> dcache[k].entries]

\* C14: a mutating operation called on a controller whose transaction handle
\* is null modifies neither hdr, nor m_idx, nor a DPN, nor the dictionary
C14_NoHandleNoChange ==
    [][(m_tx = 0 /\ m_tx' = 0) =>
          (hdr' = hdr /\ m_idx' = m_idx /\ DpnData' = DpnData /\ DictData' = DictData)]_vars

(***************************************************************************)
(* UpdateData on a primary-key column.                                     *)
(***************************************************************************)
\* the writer is inside a call of UpdateData whose key is taken: it is taking
\* the pack's lock, or holds it and UpdateIfIndex is about to throw, or the
\* exception is on its way out
InRejected ==
    \/ th[W].pc \notin {"idle", "fault"} /\ wr.op = "pending" /\ wr.val # NULL_VALUE_64
          /\ KeyThrows(wr.row, wr.val)
    \/ wr.op = "dupkey"
\* the call has the lock: UpdateIfIndex throws DuplicateKey, or has thrown it
Rejected ==
    \/ th[W].pc = "locked" /\ wr.op = "pending" /\ wr.val # NULL_VALUE_64
          /\ KeyThrows(wr.row, wr.val)
    \/ wr.op = "dupkey"

\* C15: a call of UpdateData that is rejected with DuplicateKey leaves hdr,
\* m_idx, every DPN and the dictionary as they were, allocates no DPN and
\* copies no pack, and leaves the writer in its transaction, not faulted
C15_DuplicateKeyChangesNothing ==
    [][(InRejected \/ InRejected') =>
          /\ hdr' = hdr
          /\ m_idx' = m_idx
          /\ DpnData' = DpnData
          /\ DictData' = DictData
          /\ m_tx' = m_tx
          /\ Rejected => th'[W].pc # "fault"]_vars
\* after a rejected update the transaction went on: it saved and committed
C15_Witness ==
    gh.rejected /\ m_tx = 0 /\ m_version = 1 /\ th[W].pc = "idle" /\ vfile[1].in

(***************************************************************************)
(* The range of the column in the header.                                  *)
(***************************************************************************)
\* the packs of m_idx that are not nulls-only
ValuePacks == {k \in 1 .. Len(m_idx) : ~NullOnly(dpn[m_idx[k]])}

\* C16: while only LoadData and UpdateData have changed the column, whenever
\* some pack of m_idx is not nulls-only, hdr.min is the least min_i and
\* hdr.max the greatest max_i over the packs that are not nulls-only
C16_HeaderRangeIsPackRange ==
    (gh.truncs = 0 /\ th[W].pc # "fault" /\ ValuePacks # {}) =>
        /\ \E k \in ValuePacks : hdr.min = dpn[m_idx[k]].min_i
        /\ \A k \in ValuePacks : hdr.min <= dpn[m_idx[k]].min_i
        /\ \E k \in ValuePacks : hdr.max = dpn[m_idx[k]].max_i
        /\ \A k \in ValuePacks : hdr.max >= dpn[m_idx[k]].max_i

(***************************************************************************)
(* The version file.                                                       *)
(***************************************************************************)
\* a step of SaveVersion that got as far as writing VERSION/<m_tx>
VersionWritten == m_tx # 0 /\ vfile' # vfile
\* a step that constructs the next controller by LoadVersion(committed)
VersionLoaded == m_tx = 0 /\ th[W].pc = "idle" /\ (m_tx' # 0 \/ th'[W].pc = "fault")

TrivialShared == {i \in DpnIdx : dpn[i].used /\ Trivial(dpn[i]) /\ ~IsLocal(dpn[i])}

\* C18: the tagged word of a trivial DPN that is not local is zero in every
\* state, and a call of LockPackForUse that finds such a DPN returns at once
\* and leaves every tagged word as it was
C18_TrivialWordIsZero ==
    /\ [](\A i \in TrivialShared : dpn[i].ptr = 0)
    /\ [][\A t \in DOMAIN th :
             (th[t].pc = "idle" /\ th'[t].pc = "locked" /\ th'[t].d \in TrivialShared)
                 => dpn' = dpn]_vars
\* a committed transaction copied a trivial pack for a load that left the copy
\* trivial; the next transaction's UpdateData called LockPackForUse on the
\* copy, which returned at once
C18_Witness ==
    /\ committed > 0
    /\ m_tx > committed
    /\ th[W].pc = "locked"
    /\ wr.op = "pending"
    /\ th[W].d \in TrivialShared
    /\ dpn[th[W].d].xmin = committed
    /\ dpn[th[W].d].base \in TrivialShared
    /\ dpn[th[W].d].nr > dpn[dpn[th[W].d].base].nr

(***************************************************************************)
(* Packs without a body.                                                   *)
(***************************************************************************)
\* the DPNs that have no row or only nulls
Bodiless == {i \in DpnIdx : dpn[i].used /\ (dpn[i].nr = 0 \/ NullOnly(dpn[i]))}

\* C19: a DPN with no row or with only nulls has no Pack: its tagged word holds
\* no pointer and the cache holds no Pack object for it
C19_NullOnlyHasNoPack == \A i \in Bodiless : dpn[i].ptr = 0 /\ ~cache[i].in

(***************************************************************************)
(* RCAttr::EncodeValue64 of a decimal value on a column of integer packs:  *)
(* the value's digits vv at scale vp are brought to the column's scale     *)
(* dplaces.  64-bit integers are scaled down to MINUS_INF_64 .. PLUS_INF_64.*)
(***************************************************************************)
\* the largest scale of a value and of a column
MaxScale == 3

\* int64_t division and remainder, which truncate towards zero
CDiv(a, b) == IF a >= 0 THEN a \div b ELSE -((-a) \div b)
CMod(a, b) == a - b * CDiv(a, b)

\* types::Uint64PowOfTen(n)
RECURSIVE PowOfTen(_)
PowOfTen(n) == IF n = 0 THEN 1 ELSE 10 * PowOfTen(n - 1)

\* the caller's value, the column's scale and whatever the caller's rounded
\* held before the call
InitEnc ==
    \E vv \in MINUS_INF_64 .. PLUS_INF_64 : \E vp \in 0 .. MaxScale :
    \E dplaces \in 0 .. MaxScale : \E r \in BOOLEAN :
        InitColumn(0, [lookup |-> FALSE, notnull |-> FALSE, pk |-> FALSE,
                       filters |-> FilterKinds],
                   [WrInit EXCEPT !.enc = [pc |-> "entry", v0 |-> vv, p0 |-> vp, vv |-> vv,
                                           vp |-> vp, dplaces |-> dplaces, rounded |-> r,
                                           ret |-> 0]])

\* rounded = false; vv = ValueInt(); vp = Scale(); dplaces = Type().GetScale()
EncEntry ==
    /\ wr.enc.pc = "entry"
    /\ wr' = [wr EXCEPT !.enc.rounded = FALSE, !.enc.pc = "up"]
    /\ UNCHANGED <<shareVars, hdr, m_idx, m_tx, m_version, no_change, m_dict, dcache, dfile,
                   vfile, col, committed, nextXid, removed, img, gimg, rd, th, gh>>

\* while (vp < dplaces): return an infinity if the product would leave the
\* range, else vv *= 10, vp++
EncScaleUp ==
    /\ wr.enc.pc = "up"
    /\ LET e == wr.enc
       IN  wr' = IF e.vp < e.dplaces
                 THEN IF e.vv < CDiv(MINUS_INF_64, 10)
                      THEN [wr EXCEPT !.enc.ret = MINUS_INF_64, !.enc.pc = "done"]
                      ELSE IF e.vv > CDiv(PLUS_INF_64, 10)
                      THEN [wr EXCEPT !.enc.ret = PLUS_INF_64, !.enc.pc = "done"]
                      ELSE [wr EXCEPT !.enc.vv = e.vv * 10, !.enc.vp = e.vp + 1]
                 ELSE [wr EXCEPT !.enc.pc = "down"]
    /\ UNCHANGED <<shareVars, hdr, m_idx, m_tx, m_version, no_change, m_dict, dcache, dfile,
                   vfile, col, committed, nextXid, removed, img, gimg, rd, th, gh>>

\* while (vp > dplaces): rounded if a digit is lost, vv /= 10, vp--; return vv
EncScaleDown ==
    /\ wr.enc.pc = "down"
    /\ LET e == wr.enc
       IN  wr' = IF e.vp > e.dplaces
                 THEN [wr EXCEPT !.enc.rounded = (CMod(e.vv, 10) # 0) \/ @,
                                 !.enc.vv = CDiv(e.vv, 10), !.enc.vp = e.vp - 1]
                 ELSE [wr EXCEPT !.enc.ret = e.vv, !.enc.pc = "done"]
    /\ UNCHANGED <<shareVars, hdr, m_idx, m_tx, m_version, no_change, m_dict, dcache, dfile,
                   vfile, col, committed, nextXid, removed, img, gimg, rd, th, gh>>

NextEnc ==
    \/ EncEntry
    \/ EncScaleUp
    \/ EncScaleDown

SpecEnc == InitEnc /\ [][NextEnc]_vars

\* the value at the column's scale does not fit the range
ScaleUpOverflows ==
    LET e == wr.enc
    IN  /\ e.p0 < e.dplaces
        /\ \/ e.v0 * PowOfTen(e.dplaces - e.p0) > PLUS_INF_64
           \/ e.v0 * PowOfTen(e.dplaces - e.p0) < MINUS_INF_64

\* C20: a call of EncodeValue64 whose scaling up would leave the 64-bit range
\* returns the infinity of the value's sign and has set rounded
C20_ClampSetsRounded ==
    (wr.enc.pc = "done" /\ ScaleUpOverflows) =>
        /\ wr.enc.ret = (IF wr.enc.v0 > 0 THEN PLUS_INF_64 ELSE MINUS_INF_64)
        /\ wr.enc.rounded

(***************************************************************************)
(* RCAttr::Create on an empty directory, and the transactions that follow. *)
(***************************************************************************)
\* the rows Create is asked for
MaxNoRows == 3

\* the column's directory before Create: no version file, no DPN, and no
\* controller
InitBlank ==
    \E c \in FilterCols :
        /\ col = c
        /\ dpn = [i \in DpnIdx |-> DpnReset]
        /\ cache = [i \in DpnIdx |-> NoPack]
        /\ disk = [a \in 1 .. NDpn |-> <<>>]
        /\ hdr = HdrZero
        /\ m_idx = <<>>
        /\ m_tx = 0
        /\ m_version = 0
        /\ no_change = TRUE
        /\ m_dict = 0
        /\ dcache = [k \in 1 .. MaxDictVer |-> NoDict]
        /\ dfile = [k \in 1 .. MaxDictVer |-> NoFile]
        /\ vfile = [x \in 0 .. MaxXid |-> NoVersion]
        /\ committed = 0
        /\ nextXid = 1
        /\ removed = {}
        /\ img = <<>>
        /\ gimg = [x \in 0 .. MaxXid |-> <<>>]
        /\ wr = WrInit
        /\ rd = [t \in Readers |-> [m_idx |-> <<>>, ver |-> 0]]
        /\ th = [t \in Threads |-> ThInit]
        /\ gh = GhInit

\* RCAttr::Create(dir, ati, pss, no_rows): VERSION/0 with the header and the
\* index 0 .. no_pack - 1, the seed dictionary of a lookup column, and the DN
\* file
Create(no_rows) ==
    /\ m_tx = 0
    /\ ~vfile[0].in
    /\ vfile' = [vfile EXCEPT ![0] =
                    [in |-> TRUE, hdr |-> CreateHdr(no_rows, col),
                     idx |-> [k \in 1 .. rows2packs(no_rows) |-> k - 1]]]
    /\ dfile' = IF col.lookup THEN [dfile EXCEPT ![1] = <<>>] ELSE dfile
    /\ dpn' = IF no_rows > 0 THEN CreateDpn(no_rows) ELSE dpn
    /\ gimg' = [gimg EXCEPT ![0] = Seq2(no_rows, NULL_VALUE_64)]
    /\ UNCHANGED <<cache, disk, hdr, m_idx, m_tx, m_version, no_change, m_dict, dcache,
                   col, committed, nextXid, removed, img, wr, rd, th, gh>>

NextCreate ==
    \/ \E no_rows \in 0 .. MaxNoRows : Create(no_rows)
    \/ NextCommit

SpecCreate == InitBlank /\ [][NextCreate]_vars

\* the step of Create, and the rows it was asked for
CreateStep == ~vfile[0].in /\ vfile'[0].in
NoRows == Len(gimg[0])
\* the DPNs of the DN file
UsedDpns == {i \in DpnIdx : dpn[i].used}
\* the rows of the DPNs 0 .. n - 1
RowsOfDpns(dp, n) ==
    LET sum[k \in 0 .. n] == IF k = 0 THEN 0 ELSE sum[k - 1] + dp[k - 1].nr
    IN  sum[n]

\* C21: Create(no_rows) writes VERSION/0 with nr = nn = no_rows, np the least
\* number of packs that hold no_rows rows and the index 0 .. np - 1, and np
\* DPNs, all nulls only and without an address, all full but possibly the
\* last, whose rows add up to no_rows
C21_CreateWritesNullPacks ==
    [][CreateStep =>
          LET f == vfile'[0]
              np == f.hdr.np
          IN  /\ f.hdr.nr = NoRows' /\ f.hdr.nn = NoRows'
              /\ np * PackSize >= NoRows' /\ (np > 0 => (np - 1) * PackSize < NoRows')
              /\ f.idx = [k \in 1 .. np |-> k - 1]
              /\ UsedDpns' = 0 .. (np - 1)
              /\ \A i \in UsedDpns' :
                    /\ dpn'[i].nn = dpn'[i].nr
                    /\ dpn'[i].addr = DPN_INVALID_ADDR
                    /\ dpn'[i].nr > 0
                    /\ dpn'[i].nr <= PackSize
                    /\ i < np - 1 => dpn'[i].nr = PackSize
              /\ RowsOfDpns(dpn', np) = NoRows']_vars
\* Create(3) was called: a full pack and a last pack with one row; the first
\* controller is constructed on them
C21_Witness ==
    /\ vfile[0].in /\ vfile[0].hdr.nr = 3 /\ vfile[0].hdr.np = 2
    /\ dpn[0].nr = PackSize /\ dpn[1].nr = 1
    /\ m_tx = 1 /\ m_idx = <<0, 1>> /\ no_change

(***************************************************************************)
(* The reference UpdateData takes on its pack.                             *)
(***************************************************************************)
\* the FunctionExecutor of UpdateData calls UnlockPackFromUse
UnlockCalled == wr.op \in {"done", "nullkey", "dupkey"} /\ th[W].pc = "locked" /\ wr'.op = "none"

\* C22: the unlock of UpdateData resolves the DPN the lock resolved at entry,
\* although CopyPackForWrite re-pointed m_idx[pn] in between, so the count in
\* the word of a committed pack is the number of callers that hold it, the
\* writer's UpdateData among them, and the word is zero when nobody holds or
\* loads it
C22_UpdateDataReleasesItsReference ==
    /\ [][UnlockCalled => DpnThroughBase(W, th[W].pn) = th[W].d]_vars
    /\ [](\A d \in DpnIdx : CommittedBody(d) =>
             /\ IsPtrWord(dpn[d].ptr) => RefCount(dpn[d].ptr) = Cardinality(Holders(d))
             /\ (Holders(d) = {} /\ ~\E t \in Threads : Loading(t, d)) => dpn[d].ptr = 0)
\* UpdateData holds the one reference on a committed pack with a body, has
\* copied the pack, so that m_idx[pn] names the copy, and is about to unlock
C22_Witness ==
    /\ wr.op = "done"
    /\ th[W].pc = "locked"
    /\ CommittedBody(th[W].d)
    /\ RefCount(dpn[th[W].d].ptr) = 1
    /\ m_idx[th[W].pn + 1] # th[W].d
    /\ dpn[m_idx[th[W].pn + 1]].base = th[W].d

(***************************************************************************)
(* The dictionary's copy on write.                                         *)
(***************************************************************************)
\* the entries of the writer's dictionary: of m_dict, or of what LoadPackInfo
\* will fetch for hdr.dict_ver
WriterDict ==
    IF m_dict # 0 THEN dcache[m_dict].entries
    ELSE IF dcache[hdr.dict_ver].in THEN dcache[hdr.dict_ver].entries
    ELSE dfile[hdr.dict_ver]
\* a step of the writer's transaction on a lookup column that has not been
\* truncated, which the writer's thread survives
DictStep ==
    /\ col.lookup
    /\ m_tx # 0 /\ m_tx' = m_tx
    /\ gh'.truncs = 0
    /\ th'[W].pc # "fault"

\* C23: within a transaction a step that inserts a new value leaves
\* hdr.dict_ver at the version loaded at the start of the transaction plus one,
\* whether it is the first insertion or a later one, and a step that inserts
\* nothing leaves hdr.dict_ver as it is
C23_DictionaryClonedOnce ==
    [][DictStep =>
          /\ WriterDict' # WriterDict => hdr'.dict_ver = LoadedDictVer + 1
          /\ WriterDict' = WriterDict => hdr'.dict_ver = hdr.dict_ver]_vars
\* the transaction inserted two values: one clone, two entries more than the
\* loaded dictionary
C23_Witness ==
    /\ col.lookup /\ m_tx # 0 /\ gh.truncs = 0
    /\ m_dict = hdr.dict_ver
    /\ hdr.dict_ver = LoadedDictVer + 1
    /\ Len(dcache[m_dict].entries) = Len(dfile[LoadedDictVer]) + 2

(***************************************************************************)
(* CopyPackForWrite's frame.                                               *)
(***************************************************************************)
\* the positions of m_idx a step of the transaction re-points
Repointed ==
    {k \in 1 .. Len(m_idx) : m_tx # 0 /\ m_tx' = m_tx /\ k <= Len(m_idx') /\ m_idx'[k] # m_idx[k]}
\* the DPNs the step allocates
Allocated == {i \in DpnIdx : ~dpn[i].used /\ dpn'[i].used}
\* UpdateData's body runs, after its CopyPackForWrite(pn)
BodyStep == wr.op = "pending" /\ wr'.op = "done" /\ th'[W].pc # "fault"

\* C24: a step that re-points m_idx re-points one position, from a DPN that
\* is not local to a newly allocated local DPN whose base is that DPN, and
\* leaves every field of the base DPN as it was; UpdateData on a pack that is
\* local already re-points nothing and allocates nothing
C24_CopyShadowsOnce ==
    [][/\ \A k \in Repointed :
             /\ Repointed = {k}
             /\ Allocated = {m_idx'[k]}
             /\ ~IsLocal(dpn[m_idx[k]])
             /\ IsLocal(dpn'[m_idx'[k]])
             /\ dpn'[m_idx'[k]].base = m_idx[k]
             /\ dpn'[m_idx[k]] = dpn[m_idx[k]]
             /\ Len(m_idx') = Len(m_idx)
       /\ (BodyStep /\ IsLocal(dpn[m_idx[row2pack(wr.row) + 1]])) =>
             (m_idx' = m_idx /\ Allocated = {})]_vars
\* two calls of UpdateData for the two rows of pack 0 are over: the pack has
\* one shadow
C24_Witness ==
    /\ wr.op = "done"
    /\ gh.ops = 2
    /\ img[1] # gimg[0][1] /\ img[2] # gimg[0][2]
    /\ Cardinality({i \in DpnIdx : dpn[i].used /\ IsLocal(dpn[i])}) = 1
    /\ IsLocal(dpn[m_idx[1]]) /\ dpn[m_idx[1]].base = 0

(***************************************************************************)
(* PostCommit and the shadows of the transaction.                          *)
(***************************************************************************)
\* the DPNs the transaction allocated as shadows of committed DPNs
Shadows ==
    {i \in DpnIdx : dpn[i].used /\ IsLocal(dpn[i]) /\ dpn[i].xmin = m_tx
                      /\ dpn[i].base # INVALID_PACK_INDEX}

\* C25: after PostCommit no DPN of m_idx is local, the base of every DPN the
\* transaction allocated as a shadow has xmax = MaxXID(), and the xmax of
\* every other DPN is what it was
C25_CommitEndsTheShadowed ==
    [][PostCommit =>
          /\ \A k \in 1 .. Len(m_idx') : ~IsLocal(dpn'[m_idx'[k]])
          /\ \A i \in Shadows : dpn'[dpn[i].base].xmax = MaxXID
          /\ \A j \in DpnIdx :
                (j \notin {dpn[i].base : i \in Shadows}) => dpn'[j].xmax = dpn[j].xmax]_vars

(***************************************************************************)
(* SaveVersion and the Packs of the local DPNs.                            *)
(***************************************************************************)
\* the local DPNs of m_idx that SaveVersion has to write: not trivial, not synced
Unsaved ==
    {c \in {m_idx[k] : k \in 1 .. Len(m_idx)} :
        IsLocal(dpn[c]) /\ ~Trivial(dpn[c]) /\ ~dpn[c].synced}

GetPackOntologicalStatus(d) ==
    IF NullOnly(d) THEN "NULLS_ONLY"
    ELSE IF d.min_i = d.max_i
    THEN (IF d.nn = 0 THEN "UNIFORM" ELSE "UNIFORM_AND_NULLS")
    ELSE "NORMAL"

\* PreparePackForLoad allocates a new pack: there is none, or the last is full
LoadsNewPack == Len(m_idx) = 0 \/ dpn[m_idx[Len(m_idx)]].nr = PackSize
\* the DPN LoadData starts from: the new one, or the last of m_idx
LoadTarget ==
    IF LoadsNewPack THEN alloc_dpn(dpn, m_tx, INVALID_PACK_INDEX)
    ELSE dpn[m_idx[Len(m_idx)]]
\* the batch as it is loaded has no null and one value, that of the pack if
\* the pack has rows
SameUniform(nvs) ==
    /\ NumOfNulls(Eff(nvs, col.notnull)) = 0
    /\ MinInt(Eff(nvs, col.notnull)) = MaxInt(Eff(nvs, col.notnull))
    /\ Trivial(LoadTarget)
    /\ \/ LoadTarget.nr = 0
       \/ /\ GetPackOntologicalStatus(LoadTarget) = "UNIFORM"
          /\ LoadTarget.min_i = MinInt(Eff(nvs, col.notnull))
\* the batch as it is loaded has a value that is not the pack's
BringsOther(nvs) ==
    \E k \in NonNulls(Eff(nvs, col.notnull)) : Eff(nvs, col.notnull)[k] # LoadTarget.min_i
\* the batch as it is loaded brings a null or another value to a uniform pack
BreaksUniform(nvs) ==
    /\ ~LoadsNewPack
    /\ Trivial(LoadTarget)
    /\ GetPackOntologicalStatus(LoadTarget) = "UNIFORM"
    /\ NumOfNulls(Eff(nvs, col.notnull)) > 0 \/ BringsOther(nvs)
\* LoadData(nvs) has returned
Loaded(nvs) == InTx /\ LoadData(nvs) /\ th'[W].pc = "idle"

\* C27: LoadData of a batch without nulls and with one value into an empty
\* pack or a trivial uniform pack of that value leaves the DPN trivial, with
\* no Pack, of status UNIFORM, and changes nr, min_i, max_i and sum_i only;
\* LoadData of a null or of another value into a trivial uniform pack gives
\* the DPN a Pack, and the status is NORMAL when min_i # max_i and
\* UNIFORM_AND_NULLS otherwise
C27_UniformLoadStaysTrivial ==
    [][\A nvs \in Batches :
         Loaded(nvs) =>
            /\ SameUniform(nvs) =>
                  /\ Trivial(dpn'[m_idx'[Len(m_idx')]])
                  /\ dpn'[m_idx'[Len(m_idx')]].ptr = 0
                  /\ ~cache'[m_idx'[Len(m_idx')]].in
                  /\ GetPackOntologicalStatus(dpn'[m_idx'[Len(m_idx')]]) = "UNIFORM"
                  /\ dpn'[m_idx'[Len(m_idx')]] =
                        [LoadTarget EXCEPT
                           !.used = TRUE, !.local = TRUE, !.xmin = m_tx, !.xmax = MAX_XID,
                           !.base = dpn'[m_idx'[Len(m_idx')]].base,
                           !.nr = @ + Len(nvs),
                           !.min_i = MinInt(Eff(nvs, col.notnull)),
                           !.max_i = MaxInt(Eff(nvs, col.notnull)),
                           !.sum_i = @ + SumInt(Eff(nvs, col.notnull))]
            /\ BreaksUniform(nvs) =>
                  /\ IsPtrWord(dpn'[m_idx'[Len(m_idx')]].ptr)
                  /\ cache'[PackOfWord(dpn'[m_idx'[Len(m_idx')]].ptr)].in
                  /\ GetPackOntologicalStatus(dpn'[m_idx'[Len(m_idx')]]) =
                        IF BringsOther(nvs) THEN "NORMAL" ELSE "UNIFORM_AND_NULLS"]_vars

(***************************************************************************)
(* The header's counts against the DPNs of m_idx.                          *)
(***************************************************************************)
\* the sums of nr and of nn over the DPNs of m_idx
SumNr ==
    LET sum[k \in 0 .. Len(m_idx)] ==
            IF k = 0 THEN 0 ELSE sum[k - 1] + dpn[m_idx[k]].nr
    IN  sum[Len(m_idx)]
SumNn ==
    LET sum[k \in 0 .. Len(m_idx)] ==
            IF k = 0 THEN 0 ELSE sum[k - 1] + dpn[m_idx[k]].nn
    IN  sum[Len(m_idx)]

\* C28: between two calls of the writer's transaction hdr.nr is the sum of nr
\* and hdr.nn is the sum of nn over the DPNs of m_idx
C28_HeaderCountsAreDpnSums ==
    (InTx /\ th[W].pc = "idle") => (hdr.nr = SumNr /\ hdr.nn = SumNn)

\* a NOT NULL column with nulls from Create or UpdateData and values from
\* LoadData in more than one pack, after the last call of the transaction
C28_Witness ==
    /\ col.notnull
    /\ InTx
    /\ th[W].pc = "idle"
    /\ gh.ops = MaxOps
    /\ hdr.nn > 0
    /\ hdr.nr > hdr.nn
    /\ Len(m_idx) > 1
    /\ hdr.nr = SumNr

(***************************************************************************)
(* The Pack behind the word of a committed DPN.                            *)
(***************************************************************************)
\* C29: a pointer in the tagged word of a committed DPN refers to the Pack
\* cached under that DPN's own coordinate, also when the writer locks a pack
\* it has copied for write and LockPackForUse loads the base
C29_CommittedWordIsOwnPack ==
    \A d \in DpnIdx :
        (dpn[d].used /\ ~IsLocal(dpn[d]) /\ IsPtrWord(dpn[d].ptr)) =>
            PackOfWord(dpn[d].ptr) = d

(***************************************************************************)
(* The base that LockPackForUse and UnlockPackFromUse follow.              *)
(***************************************************************************)
\* UpdateData's FunctionExecutor calls LockPackForUse(pn) in this step
LockCalled ==
    /\ wr.op # "pending"
    /\ wr'.op = "pending"
    /\ row2pack(wr'.row) < Len(m_idx)
\* the DPN of pack pn is committed, or is local and shadows a DPN of the share
BaseIsValid(pn) ==
    IsLocal(dpn[m_idx[pn + 1]]) =>
        /\ dpn[m_idx[pn + 1]].base \in DpnIdx
        /\ dpn[dpn[m_idx[pn + 1]].base].used

\* C30: when the writer calls LockPackForUse or UnlockPackFromUse on a pack
\* whose DPN is local, the base they follow is a DPN of the share, also for a
\* pack that LoadData appended earlier in the transaction
C30_LocalBaseIsValid ==
    [][/\ LockCalled => BaseIsValid(row2pack(wr'.row))
       /\ UnlockCalled => BaseIsValid(th[W].pn)]_vars

(***************************************************************************)
(* The dictionary handle against hdr.dict_ver.                             *)
(***************************************************************************)
\* C31: when hdr.dict_ver > 0 and the controller holds a dictionary, the
\* handle is the dictionary of version hdr.dict_ver, and while the
\* transaction has not changed it, it holds what DICT/<hdr.dict_ver> holds:
\* after LoadVersion, after a copy-on-write and after Truncate
C31_HandleIsDictOfHeader ==
    (hdr.dict_ver > 0 /\ m_dict # 0) =>
        /\ m_dict = hdr.dict_ver
        /\ ~dcache[m_dict].changed => dcache[m_dict].entries = dfile[hdr.dict_ver]

(***************************************************************************)
(* The cache lock of a Pack against the references in the word.            *)
(***************************************************************************)
\* the word of a DPN points to the Pack at coordinate c: its count is >= 1
Pointed(c) ==
    \E d \in DpnIdx :
        dpn[d].used /\ IsPtrWord(dpn[d].ptr) /\ PackOfWord(dpn[d].ptr) = c
\* the threads that stored 0 in the word and have not called Pack::Unlock yet
Releasers(c) == {t \in Threads : th[t].pc = "unl_pack" /\ PackOfWord(th[t].v) = c}
\* the threads that hold the Pack from GetOrFetchObject and have not stored it
Installers(c) == {t \in Threads : th[t].pc = "install" /\ th[t].sp = c}

\* C32: while the count in a word is at least 1 its Pack is in the cache and
\* locked; every lock of a Pack belongs to the word that points to it, to a
\* thread that released the last reference and has not unlocked yet, or to a
\* loader that has not installed yet, so the late Pack::Unlock of a releaser
\* gives back its own lock and not the one of a thread that locked the pack
\* again once the word was 0; and no Pack leaves the cache while a word points
\* to it
C32_CountedPackStaysLocked ==
    /\ [](\A c \in DpnIdx :
            /\ Pointed(c) => (cache[c].in /\ cache[c].lock >= 1)
            /\ cache[c].in =>
                  cache[c].lock = (IF Pointed(c) THEN 1 ELSE 0)
                                    + Cardinality(Releasers(c))
                                    + Cardinality(Installers(c))
            /\ \A t \in Threads : th[t].pc # "fault")
    /\ [][\A c \in DpnIdx : (cache[c].in /\ ~cache'[c].in) => ~Pointed(c)]_vars

\* a reader has locked pack 0 again after another one stored 0 in the word,
\* and that one has not called Pack::Unlock yet
C32_Witness ==
    \E t, u \in Readers :
        /\ th[t].pc = "unl_pack" /\ PackOfWord(th[t].v) = 0
        /\ th[u].pc = "locked" /\ th[u].d = 0
        /\ IsPtrWord(dpn[0].ptr)
        /\ cache[0].lock = 2

====
